---- MODULE Spec2Model ----
(***************************************************************************)
(* Narration timing and audio-assembly engine of reel-gen.                 *)
(*                                                                         *)
(*   Spec         adjustVoiceoverDuration (the duration matcher) as a      *)
(*                state machine: one action per awaited subprocess exit.   *)
(*   SpecDistill  the text distiller (createVoiceoverScript, the           *)
(*                rule-based legacy path and the summarizer fallback).     *)
(*   SpecMontage  createVideoMontage: narration stage and audio graph.     *)
(*                                                                         *)
(* Durations are integers in ticks of 1/30 s (one video frame at 30 fps);   *)
(* tempo factors and the durations of produced files are exact rationals   *)
(* <<n, d>> in lowest terms.                                               *)
(***************************************************************************)
EXTENDS Integers, Sequences, FiniteSets, TLC

VARIABLES
    \* ---- adjustVoiceoverDuration (tts-service.ts)
    currentDuration,   \* argument currentDuration, in ticks
    targetDuration,    \* argument targetDuration, in ticks
    pc,                \* the await the call is suspended at
    branch,            \* which branch of the function was taken
    fs,                \* the files the call reads and writes
    spawned,           \* the ffmpeg commands issued so far, in order
    exits,             \* exit status (TRUE = code 0) of each finished command
    verified,          \* what the final getAudioDuration probe reported
    \* ---- createVideoMontage (youtube-extraction-service)
    mpc,               \* the await the montage builder is suspended at
    mcfg,              \* the configuration toggles the builder reads
    clipCount,         \* clipPaths.length
    videoDuration,     \* probed duration of the concatenated clips, in ticks
    montageTarget,     \* targetDuration = min(videoDuration, config.videoDuration)
    voiceoverPath,     \* "null", "voiceoverOutputPath" or "adjustedOutputPath"
    voiceoverDuration, \* first probe of the synthesized narration
    margs,             \* the final-assembly ffmpeg command
    tempMontage,       \* whether <id>_temp_montage.mp4 exists
    \* ---- the text distiller (tts-service.ts, transcript-summarizer)
    transcript,        \* the transcript, a sequence of characters
    sentenceCount,     \* how many sentences the transcript was built from
    dpc,               \* "input", "llm" (model.invoke pending) or "done"
    maxWords,          \* the word budget of the call
    script,            \* the returned script
    via,               \* the function applied: "legacy" or "create"
    llm,               \* outcome of the language-model call
    summarizerCalls,   \* the calls of summarizeTranscript, in order
    \* ---- getAudioDuration (tts-service.ts)
    qpc,               \* "exec" (ffprobe running) or "settled"
    probeError,        \* whether exec reports an error (non-zero exit, spawn failure)
    probeStderr,       \* what ffprobe wrote to stderr
    probeStdout,       \* what ffprobe wrote to stdout
    probeResult,       \* how the promise settled
    \* ---- createShortVideo (video-service.ts)
    spc,               \* the await the builder is suspended at, or how it settled
    scfg,              \* the configuration toggles
    imageCount,        \* videoData.imagePaths.length
    shortVoiceoverPath,     \* voiceoverPath
    shortVoiceoverDuration, \* voiceoverDuration
    sargs,             \* the final-assembly command
    slog,              \* what went wrong on the way, in order
    shortOutput,       \* the file at outputVideoPath
    \* ---- generateVoiceover and the provider adapters (tts-service.ts)
    gpc,               \* the event generateVoiceover is waiting for, or "settled"
    gcfg,              \* voiceoverTtsService and which API keys are set
    requests,          \* the provider requests sent so far, in order
    statusCode,        \* res.statusCode, 0 before a response arrived
    errorData,         \* the body chunks collected from a non-200 response
    voiceoverResult,   \* how generateVoiceover's promise settled
    \* ---- spawnFFmpeg (tts-service.ts, video-service.ts, montage builder)
    site,              \* which copy of spawnFFmpeg, and for which stage
    process,           \* the child process
    timeout,           \* the timer set by setTimeout, "none" if there is none
    elapsed,           \* wall-clock time since the spawn, in ticks of 30 s
    spawnResult,       \* how spawnFFmpeg's promise settled
    \* ---- calculateTargetWordCount (tts-service.ts)
    wpc,               \* "call" before the call, "returned" after it
    durationSeconds,   \* the duration argument, a rational number of seconds
    voiceRate,         \* config.speakingRates[voiceType]: a number or undefined
    wordConfig,        \* defaultSpeakingRate and wordCountBufferFactor
    returnedWordCount, \* the value returned (targetWordCount)
    \* ---- generateVoiceover: the text it prepares for the provider (tts-service.ts)
    ppc,               \* "call" before the text is prepared, "prepared" after
    prepText,          \* argument text
    prepConfig,        \* voiceoverTtsService, maxDuration and the voice's speaking rate
    TARGET_WORD_COUNT, \* the word budget derived from the duration
    truncatedText,     \* the text after the word truncation
    optionsText,       \* options.text, the text handed to the provider adapter
    \* ---- both builders run against the same stage outcomes (video-service.ts, extraction/video-service.ts)
    stageOutcomes,     \* how each awaited narration stage settles; "free" when each call draws its own
    \* ---- two concurrent adjustVoiceoverDuration calls in their extreme branch (tts-service.ts)
    now,               \* Date.now(), in milliseconds
    cpc,               \* each call's position
    outputDir,         \* each call's path.dirname(outputPath)
    stretching,        \* each call: tempoFactor < 0.5 (else tempoFactor > 2.0)
    tempSilencePaths,  \* each call's tempSilencePath
    tempOutputPaths,   \* each call's tempOutputPath
    tempFs,            \* the temporary files on disk, each with the call that wrote it
    \* ---- extractDistributedKeyContent: the candidate list of a long transcript (tts-service.ts)
    zpc,               \* "call" before the sections are combined, "combined" after
    sentenceIndices,   \* the argument sentences, each standing for its position (from 1)
    combinedIndices,   \* combinedSentences
    \* ---- the two word budgets of one narration: distillation and synthesis (video-service.ts, tts-service.ts)
    bpc,               \* "call", "scripted" after createVoiceoverScript, "prepared" after generateVoiceover's word check
    budgetInput,       \* totalDuration, config.voiceoverDurationRatio, the voice's rate and the word-count settings
    optimalWordCount,  \* the builder's calculateTargetWordCount(targetVoiceoverDuration, voiceType)
    scriptWordCount,   \* script.split(/\s+/).length
    voiceoverBudget,   \* generateVoiceover's TARGET_WORD_COUNT
    truncatedAgain     \* generateVoiceover took its truncation branch

adjustVars == <<currentDuration, targetDuration, pc, branch, fs, spawned, exits, verified>>

montageVars == <<mpc, mcfg, clipCount, videoDuration, montageTarget, voiceoverPath,
                 voiceoverDuration, margs, tempMontage>>

distillVars == <<transcript, sentenceCount, dpc, maxWords, script, via, llm, summarizerCalls>>

probeVars == <<qpc, probeError, probeStderr, probeStdout, probeResult>>

\* the variables of the services modelled further down
shortVars == <<spc, scfg, imageCount, shortVoiceoverPath, shortVoiceoverDuration,
               sargs, slog, shortOutput>>

synthVars == <<gpc, gcfg, requests, statusCode, errorData, voiceoverResult>>

spawnVars == <<site, process, timeout, elapsed, spawnResult>>

wordVars == <<wpc, durationSeconds, voiceRate, wordConfig, returnedWordCount>>

prepareVars == <<ppc, prepText, prepConfig, TARGET_WORD_COUNT, truncatedText, optionsText>>

pairVars == <<stageOutcomes>>

concVars == <<now, cpc, outputDir, stretching, tempSilencePaths, tempOutputPaths, tempFs>>

zoneVars == <<zpc, sentenceIndices, combinedIndices>>

budgetVars == <<bpc, budgetInput, optimalWordCount, scriptWordCount, voiceoverBudget, truncatedAgain>>

extraVars == <<probeVars, shortVars, synthVars, spawnVars, wordVars, prepareVars, pairVars, concVars, zoneVars, budgetVars>>

vars == <<adjustVars, montageVars, distillVars, extraVars>>

(***************************************************************************)
(* Bounds                                                                  *)
(***************************************************************************)
MaxDuration == 34
MaxClips == 2
MaxSentences == 4

(***************************************************************************)
(* Exact rational arithmetic                                               *)
(***************************************************************************)
RECURSIVE GCD(_, _)
GCD(a, b) == IF b = 0 THEN a ELSE GCD(b, a % b)

Norm(r) == LET g == GCD(r[1], r[2]) IN IF g = 0 THEN <<0, 1>> ELSE <<r[1] \div g, r[2] \div g>>

Rat(n) == <<n, 1>>
RMul(a, b) == Norm(<<a[1] * b[1], a[2] * b[2]>>)
RDiv(a, b) == Norm(<<a[1] * b[2], a[2] * b[1]>>)
RAdd(a, b) == Norm(<<a[1] * b[2] + b[1] * a[2], a[2] * b[2]>>)
RLt(a, b) == a[1] * b[2] < b[1] * a[2]
RLe(a, b) == a[1] * b[2] <= b[1] * a[2]
RMin(a, b) == IF RLt(b, a) THEN b ELSE a
RMax(a, b) == IF RLt(a, b) THEN b ELSE a
Abs(x) == IF x < 0 THEN -x ELSE x
Min(a, b) == IF a < b THEN a ELSE b
Half == <<1, 2>>
One == <<1, 1>>
Two == <<2, 1>>

(***************************************************************************)
(* Text.  A string is a sequence of characters; an HTML entity such as     *)
(* &amp;#39; is kept as one element.  The operators follow the JavaScript  *)
(* string and regular-expression calls of the source.                      *)
(***************************************************************************)
IsWs(c) == c \in {" ", "\n", "\t"}
IsPunct(c) == c \in {".", "!", "?"}
Capitals == <<"A", "B", "C", "D", "E", "F", "G", "H">>
IsUpper(c) == \E k \in 1..Len(Capitals) : Capitals[k] = c

Indices(t) == [i \in 1..Len(t) |-> i]

\* concatenation of pieces[lo..hi]
RECURSIVE Flatten(_, _, _)
Flatten(pieces, lo, hi) ==
    IF lo > hi THEN <<>>
    ELSE IF lo = hi THEN pieces[lo]
    ELSE LET mid == (lo + hi) \div 2
         IN Flatten(pieces, lo, mid) \o Flatten(pieces, mid + 1, hi)

\* the result of a global regex replace, given what each position turns into
Rewrite(t, Piece(_)) == Flatten([i \in 1..Len(t) |-> Piece(i)], 1, Len(t))

\* the last non-whitespace position at or before i (0 if none)
RECURSIVE LastNonWs(_, _)
LastNonWs(t, i) == IF i >= 1 /\ IsWs(t[i]) THEN LastNonWs(t, i - 1) ELSE i

\* the first non-whitespace position at or after i (Len(t) + 1 if none)
RECURSIVE FirstNonWs(_, _)
FirstNonWs(t, i) == IF i <= Len(t) /\ IsWs(t[i]) THEN FirstNonWs(t, i + 1) ELSE i

\* String.prototype.trim
Trim(t) == SubSeq(t, FirstNonWs(t, 1), LastNonWs(t, Len(t)))

\* String.prototype.split(/\s+/)
SplitWs(t) ==
    LET n == Len(t)
        starts == SelectSeq(Indices(t), LAMBDA i : ~IsWs(t[i]) /\ (i = 1 \/ IsWs(t[i - 1])))
        ends == SelectSeq(Indices(t), LAMBDA i : ~IsWs(t[i]) /\ (i = n \/ IsWs(t[i + 1])))
        words == [k \in 1..Len(starts) |-> SubSeq(t, starts[k], ends[k])]
    IN  IF n = 0 THEN <<<<>>>>
        ELSE (IF IsWs(t[1]) THEN <<<<>>>> ELSE <<>>) \o words
                 \o (IF IsWs(t[n]) THEN <<<<>>>> ELSE <<>>)

\* text.split(/\s+/).length
WordCount(t) == Len(SplitWs(t))

\* String.prototype.split("|")
SplitBar(t) ==
    LET n == Len(t)
        bars == SelectSeq(Indices(t), LAMBDA i : t[i] = "|")
    IN  [k \in 1..(Len(bars) + 1) |->
            SubSeq(t, IF k = 1 THEN 1 ELSE bars[k - 1] + 1,
                      IF k <= Len(bars) THEN bars[k] - 1 ELSE n)]

\* Array.prototype.join
Join(parts, sep) ==
    Flatten([k \in 1..Len(parts) |-> IF k = 1 THEN parts[k] ELSE sep \o parts[k]], 1, Len(parts))

\* mutant: slice(0, maxWords - 1), one word short
SliceWordsOneShort(t, n) ==
    LET words == SplitWs(t) IN Join(SubSeq(words, 1, Min(n - 1, Len(words))), <<" ">>)

\* text.split(/\s+/).slice(0, maxWords).join(" ")
SliceWords(t, n) ==
    LET words == SplitWs(t) IN Join(SubSeq(words, 1, Min(n, Len(words))), <<" ">>)

\* whitespace directly after a matched position is consumed by the match's \s*
FollowsMatch(t, i, Matches(_)) ==
    IsWs(t[i]) /\ LastNonWs(t, i) > 0 /\ Matches(LastNonWs(t, i))

\* .replace(/([.!?])\s*(?=[A-Z])/g, "$1|")
MarkSentenceEnds(t) ==
    LET EndsSentence(i) ==
            /\ IsPunct(t[i])
            /\ FirstNonWs(t, i + 1) <= Len(t)
            /\ IsUpper(t[FirstNonWs(t, i + 1)])
    IN Rewrite(t, LAMBDA i : IF EndsSentence(i) THEN <<t[i], "|">>
                             ELSE IF FollowsMatch(t, i, EndsSentence) THEN <<>>
                             ELSE <<t[i]>>)

\* splitIntoSentences: .replace(...).split("|").map(trim).filter(nonempty)
SplitIntoSentences(t) ==
   LET parts == SplitBar(MarkSentenceEnds(t))
       trimmed == [k \in 1..Len(parts) |-> Trim(parts[k])]
   IN SelectSeq(trimmed, LAMBDA s : Len(s) > 0)

\* .replace(/([.!?])\s*/g, "$1 ")
SpaceAfterPunct(t) ==
    Rewrite(t, LAMBDA i : IF IsPunct(t[i]) THEN <<t[i], " ">>
                          ELSE IF FollowsMatch(t, i, LAMBDA j : IsPunct(t[j])) THEN <<>>
                          ELSE <<t[i]>>)

\* .replace(/\s+/g, " ")
CollapseWs(t) ==
    Rewrite(t, LAMBDA i : IF ~IsWs(t[i]) THEN <<t[i]>>
                          ELSE IF i > 1 /\ IsWs(t[i - 1]) THEN <<>> ELSE <<" ">>)

\* formatScript: map(trim).join(". "), space after punctuation, collapse, trim
FormatScript(sentences) ==
    Trim(CollapseWs(SpaceAfterPunct(
        Join([k \in 1..Len(sentences) |-> Trim(sentences[k])], <<".", " ">>))))

\* decodeHtmlEntities
DecodeHtmlEntities(t) ==
    [i \in 1..Len(t) |->
        CASE t[i] = "&amp;#39;" -> "'"
          [] t[i] = "&amp;quot;" -> "\""
          [] t[i] = "&amp;nbsp;" -> " "
          [] t[i] = "&amp;lt;" -> "<"
          [] t[i] = "&amp;gt;" -> ">"
          [] t[i] = "&amp;amp;" -> "&"
          [] OTHER -> t[i]]

(***************************************************************************)
(* The rule-based distiller of tts-service.ts                              *)
(***************************************************************************)
\* the budget at or below which the micro summary is used
VeryShortMaxWords == 20

\* mutant: when first and last do not fit, both are joined and cut to the budget
CreateVeryShortSummaryJoinsBoth(sentences, budget) ==
    IF Len(sentences) = 0 THEN <<>>
    ELSE SliceWords(Join(<<sentences[1], sentences[Len(sentences)]>>, <<" ">>), budget)

\* createVeryShortSummary
CreateVeryShortSummary(sentences, budget) ==
    IF Len(sentences) > 1
       /\ WordCount(sentences[1]) + WordCount(sentences[Len(sentences)]) > budget
    THEN SliceWords(sentences[1], budget)
    ELSE LET selectedSentences ==
                 (IF Len(sentences) > 0 THEN <<sentences[1]>> ELSE <<>>)
                     \o (IF Len(sentences) > 1 THEN <<sentences[Len(sentences)]>> ELSE <<>>)
             result == Join(selectedSentences, <<" ">>)
         IN  IF WordCount(result) > budget THEN SliceWords(result, budget) ELSE result

Max(a, b) == IF a > b THEN a ELSE b

\* mutant: the middle window is half of the transcript wide
CombinedSentencesWideMiddle(sentences) ==
    LET totalSentences == Len(sentences)
        beginningCount == Max(1, totalSentences \div 4)
        endCount == Max(1, totalSentences \div 4)
        middleCount == Max(1, totalSentences \div 2)
        middleIndex == totalSentences \div 2
        halfMiddleCount == middleCount \div 2
    IN  SubSeq(sentences, 1, beginningCount)
            \o SubSeq(sentences,
                      Max(0, middleIndex - halfMiddleCount) + 1,
                      Min(totalSentences, middleIndex + halfMiddleCount + (middleCount % 2)))
            \o SubSeq(sentences, totalSentences - endCount + 1, totalSentences)

\* [...beginningSection, ...middleSection, ...endSection]
CombinedSentences(sentences) ==
    LET totalSentences == Len(sentences)
        beginningCount == Max(1, totalSentences \div 4)
        endCount == Max(1, totalSentences \div 4)
        middleCount == Max(1, totalSentences \div 4)
        middleIndex == totalSentences \div 2
        halfMiddleCount == middleCount \div 2
    IN  SubSeq(sentences, 1, beginningCount)
            \o SubSeq(sentences,
                      Max(0, middleIndex - halfMiddleCount) + 1,
                      Min(totalSentences, middleIndex + halfMiddleCount + (middleCount % 2)))
            \o SubSeq(sentences, totalSentences - endCount + 1, totalSentences)

\* mutant: a sentence that does not fit is skipped (continue) instead of ending the loop
RECURSIVE AccumulateSkipping(_, _, _, _, _)
AccumulateSkipping(combined, i, totalWords, finalSentences, budget) ==
    IF i > Len(combined)
    THEN [returned |-> FALSE, text |-> <<>>, finalSentences |-> finalSentences]
    ELSE LET sentenceWords == WordCount(combined[i]) IN
         IF totalWords + sentenceWords > budget
         THEN IF finalSentences = <<>>
              THEN [returned |-> TRUE, text |-> SliceWords(combined[i], budget),
                    finalSentences |-> finalSentences]
              ELSE AccumulateSkipping(combined, i + 1, totalWords, finalSentences, budget)
         ELSE AccumulateSkipping(combined, i + 1, totalWords + sentenceWords,
                                 Append(finalSentences, combined[i]), budget)

\* the loop "for (const sentence of combinedSentences)" of extractDistributedKeyContent
RECURSIVE Accumulate(_, _, _, _, _)
Accumulate(combined, i, totalWords, finalSentences, budget) ==
    IF i > Len(combined)
    THEN [returned |-> FALSE, text |-> <<>>, finalSentences |-> finalSentences]
    ELSE LET sentenceWords == WordCount(combined[i]) IN
         IF totalWords + sentenceWords > budget
         THEN IF finalSentences = <<>>
              THEN [returned |-> TRUE, text |-> SliceWords(combined[i], budget),
                    finalSentences |-> finalSentences]
              ELSE [returned |-> FALSE, text |-> <<>>, finalSentences |-> finalSentences]
         ELSE IF totalWords + sentenceWords = budget
         THEN [returned |-> FALSE, text |-> <<>>,
               finalSentences |-> Append(finalSentences, combined[i])]
         ELSE Accumulate(combined, i + 1, totalWords + sentenceWords,
                         Append(finalSentences, combined[i]), budget)

\* extractDistributedKeyContent
ExtractDistributedKeyContent(sentences, budget) ==
    IF Len(sentences) <= 3
    THEN LET result == Join(sentences, <<" ">>)
         IN IF WordCount(result) > budget THEN SliceWords(result, budget) ELSE result
    ELSE LET loop == Accumulate(CombinedSentences(sentences), 1, 0, <<>>, budget)
         IN  IF loop.returned THEN loop.text
             ELSE IF loop.finalSentences = <<>> /\ Len(sentences) > 0
             THEN SliceWords(sentences[1], budget)
             ELSE FormatScript(loop.finalSentences)

\* mutant: the final "never exceed maxWords" check is left out
LegacyWithoutFinalCheck(text, budget) ==
    IF WordCount(text) <= budget THEN text
    ELSE IF budget <= VeryShortMaxWords
    THEN CreateVeryShortSummary(SplitIntoSentences(text), budget)
    ELSE ExtractDistributedKeyContent(SplitIntoSentences(text), budget)

\* legacyCreateVoiceoverScript
LegacyCreateVoiceoverScript(text, budget) ==
    IF WordCount(text) <= budget THEN text
    ELSE LET sentences == SplitIntoSentences(text) IN
         IF budget <= VeryShortMaxWords
         THEN CreateVeryShortSummary(sentences, budget)
         ELSE LET result == ExtractDistributedKeyContent(sentences, budget)
              IN IF WordCount(result) > budget THEN SliceWords(result, budget) ELSE result

(***************************************************************************)
(* Files.  A file is its duration and the transforms that produced it from *)
(* the input audio; the input itself has the empty history.                *)
(***************************************************************************)
NoFile == [exists |-> FALSE, dur |-> <<0, 1>>, hist |-> <<>>]
PartialFile == [exists |-> TRUE, dur |-> <<0, 1>>, hist |-> <<[op |-> "partial", arg |-> <<0, 1>>]>>]
InputAudio(cur) == [exists |-> TRUE, dur |-> Rat(cur), hist |-> <<>>]

Paths == {"audioPath", "outputPath", "tempSilencePath", "tempOutputPath"}

\* ffmpeg -filter:a atempo=f : the duration is divided by f
Atempo(file, f) ==
    [exists |-> TRUE, dur |-> RDiv(file.dur, f),
     hist |-> Append(file.hist, [op |-> "atempo", arg |-> f])]

RECURSIVE AtempoChain(_, _)
AtempoChain(file, chain) ==
    IF chain = <<>> THEN file
    ELSE AtempoChain(Atempo(file, Head(chain)), Tail(chain))

\* ffmpeg -f lavfi -i anullsrc -t d : a silent file of duration d
Silence(d) == [exists |-> TRUE, dur |-> d, hist |-> <<[op |-> "anullsrc", arg |-> d]>>]

\* ffmpeg concat=n=2 : the durations add
Concat(a, b) ==
    [exists |-> TRUE, dur |-> RAdd(a.dur, b.dur),
     hist |-> Append(a.hist, [op |-> "concat", arg |-> b.dur])]

(***************************************************************************)
(* adjustVoiceoverDuration                                                 *)
(***************************************************************************)
\* config.audioAdjustmentThreshold, default 0.1 s = 3 ticks
AudioAdjustmentThreshold == 3


WithinThreshold(cur, tgt) == Abs(cur - tgt) < AudioAdjustmentThreshold

\* mutant: the ratio taken the wrong way round (target / current)
TempoFactorInverted(cur, tgt) == Norm(<<tgt, cur>>)

\* tempoFactor = currentDuration / targetDuration
TempoFactor(cur, tgt) == Norm(<<cur, tgt>>)

\* the branch the if / else-if chain selects
IsMinor(f) == RLe(<<9, 10>>, f) /\ RLe(f, <<11, 10>>)
IsModerate(f) == RLe(Half, f) /\ RLe(f, Two)

\* silenceDuration = targetDuration * 0.5
SilenceDuration(tgt) == RMul(Rat(tgt), Half)

\* mutant: the residual factor computed without the appended silence
NewTempoFactorNoSilence(cur, tgt) == RDiv(Rat(cur), Rat(tgt))

\* newTempoFactor = (currentDuration + silenceDuration) / targetDuration
NewTempoFactor(cur, tgt) == RDiv(RAdd(Rat(cur), SilenceDuration(tgt)), Rat(tgt))

\* mutant: the loop runs while (remainingFactor > 2.0) and drops the last stage
RECURSIVE FilterChainDropsLast(_)
FilterChainDropsLast(remainingFactor) ==
    IF RLt(Two, remainingFactor)
    THEN <<Two>> \o FilterChainDropsLast(RDiv(remainingFactor, Two))
    ELSE <<>>

\* while (remainingFactor > 1.0) { step = min(remaining, 2.0); ...; remaining /= step }
RECURSIVE FilterChain(_)
FilterChain(remainingFactor) ==
    IF RLt(One, remainingFactor)
    THEN LET stepFactor == RMin(remainingFactor, Two)
         IN <<RMin(stepFactor, Two)>> \o FilterChain(RDiv(remainingFactor, stepFactor))
    ELSE <<>>

\* mutant: the fallback factor is capped above but not below
ClampedFactorUpperOnly(f) == RMin(f, Two)

\* Math.max(0.5, Math.min(tempoFactor, 2.0))
ClampedFactor(f) == RMax(Half, RMin(f, Two))

Cmd(name, factors) == [cmd |-> name, factors |-> factors]

\* a failed ffmpeg run leaves its output path untouched or holding a partial file
AfterFailure(path, partial) ==
    IF partial THEN [fs EXCEPT ![path] = PartialFile] ELSE fs

\* mutant: the input is moved to the destination instead of copied
RenameSync(files, src, dest) == [files EXCEPT ![dest] = files[src], ![src] = NoFile]

\* fs.copyFileSync(src, dest)
CopyFileSync(files, src, dest) == [files EXCEPT ![dest] = files[src]]

\* mutant: the outer catch returns outputPath without copying the input
OuterCatchNoCopy(files) == files

\* the outer catch: fs.copyFileSync(audioPath, outputPath); return outputPath
OuterCatch(files) == [files EXCEPT !["outputPath"] = files["audioPath"]]

NoArgs == [inputs |-> <<>>, filterComplex |-> <<>>, maps |-> <<>>, t |-> 0]

NullDuration == <<-1, 1>>

MontageIdle ==
    /\ mpc = "off"
    /\ mcfg = [aiVoiceoverEnabled |-> FALSE, useCustomSoundtrack |-> FALSE,
               soundtrackExists |-> FALSE, removeAudio |-> FALSE]
    /\ clipCount = 0
    /\ videoDuration = 0
    /\ montageTarget = 0
    /\ voiceoverPath = "null"
    /\ voiceoverDuration = NullDuration
    /\ margs = NoArgs
    /\ tempMontage = FALSE

DistillIdle ==
    /\ transcript = <<>>
    /\ sentenceCount = 0
    /\ dpc = "off"
    /\ maxWords = 0
    /\ script = <<>>
    /\ via = "none"
    /\ llm = "none"
    /\ summarizerCalls = <<>>

Pending == [kind |-> "pending"]

ProbeIdle ==
    /\ qpc = "off"
    /\ probeError = FALSE
    /\ probeStderr = <<>>
    /\ probeStdout = <<>>
    /\ probeResult = Pending

NoShortArgs ==
    [images |-> 0, perImage |-> <<0, 1>>, inputs |-> <<>>, filterComplex |-> <<>>,
     maps |-> <<>>, t |-> 0]

ShortIdle ==
    /\ spc = "off"
    /\ scfg = [aiVoiceoverEnabled |-> FALSE, useCustomSoundtrack |-> FALSE,
               soundtrackExists |-> FALSE]
    /\ imageCount = 0
    /\ shortVoiceoverPath = "null"
    /\ shortVoiceoverDuration = NullDuration
    /\ sargs = NoShortArgs
    /\ slog = <<>>
    /\ shortOutput = "none"

SynthIdle ==
    /\ gpc = "off"
    /\ gcfg = [voiceoverTtsService |-> "openai", openAiApiKey |-> FALSE,
               elevenLabsApiKey |-> FALSE]
    /\ requests = <<>>
    /\ statusCode = 0
    /\ errorData = <<>>
    /\ voiceoverResult = Pending

SpawnIdle ==
    /\ site = [module |-> "none", stage |-> "none"]
    /\ process = "none"
    /\ timeout = "none"
    /\ elapsed = 0
    /\ spawnResult = Pending

Undefined == [kind |-> "undefined"]

WordIdle ==
    /\ wpc = "off"
    /\ durationSeconds = <<0, 1>>
    /\ voiceRate = Undefined
    /\ wordConfig = [defaultSpeakingRate |-> <<0, 1>>, wordCountBufferFactor |-> <<0, 1>>]
    /\ returnedWordCount = 0

PrepareIdle ==
    /\ ppc = "off"
    /\ prepText = <<>>
    /\ prepConfig = [voiceoverTtsService |-> "openai", maxDuration |-> Undefined,
                     voiceRate |-> Undefined]
    /\ TARGET_WORD_COUNT = 0
    /\ truncatedText = <<>>
    /\ optionsText = <<>>

\* no temporary path named yet
NoPath == [dir |-> "none", prefix |-> "none", ms |-> 0]

PairIdle ==
    /\ stageOutcomes = [kind |-> "free"]

ConcIdle ==
    /\ now = 0
    /\ cpc = <<"off", "off">>
    /\ outputDir = <<"none", "none">>
    /\ stretching = <<FALSE, FALSE>>
    /\ tempSilencePaths = <<NoPath, NoPath>>
    /\ tempOutputPaths = <<NoPath, NoPath>>
    /\ tempFs = {}

ZoneIdle ==
    /\ zpc = "off"
    /\ sentenceIndices = <<>>
    /\ combinedIndices = <<>>

BudgetIdle ==
    /\ bpc = "off"
    /\ budgetInput = [totalDuration |-> <<15, 1>>, ratio |-> <<93, 100>>, voiceRate |-> Undefined,
                      cfg |-> [defaultSpeakingRate |-> <<14, 5>>,
                               wordCountBufferFactor |-> <<49, 50>>]]
    /\ optimalWordCount = 0
    /\ scriptWordCount = 0
    /\ voiceoverBudget = 0
    /\ truncatedAgain = FALSE

ExtraIdle == ProbeIdle /\ ShortIdle /\ SynthIdle /\ SpawnIdle /\ WordIdle /\ PrepareIdle /\ PairIdle /\ ConcIdle /\ ZoneIdle /\ BudgetIdle

AdjustIdle ==
    /\ currentDuration = 1
    /\ targetDuration = 1
    /\ pc = "off"
    /\ branch = "none"
    /\ fs = [p \in Paths |-> NoFile]
    /\ spawned = <<>>
    /\ exits = <<>>
    /\ verified = "none"

Init ==
    /\ MontageIdle
    /\ DistillIdle
    /\ ExtraIdle
    /\ currentDuration \in 1..MaxDuration
    /\ targetDuration \in 1..MaxDuration
    /\ pc = "entry"
    /\ branch = "none"
    /\ fs = [p \in Paths |-> IF p = "audioPath" THEN InputAudio(currentDuration) ELSE NoFile]
    /\ spawned = <<>>
    /\ exits = <<>>
    /\ verified = "none"

\* the synchronous code from the call to the first await (or the early return)
AdjustEntry ==
    /\ pc = "entry"
    /\ LET f == TempoFactor(currentDuration, targetDuration) IN
       IF WithinThreshold(currentDuration, targetDuration)
       THEN /\ fs' = CopyFileSync(fs, "audioPath", "outputPath")
            /\ branch' = "noop"
            /\ pc' = "returned"
            /\ spawned' = spawned
       ELSE IF IsMinor(f)
       THEN /\ branch' = "minor"
            /\ pc' = "minor"
            /\ spawned' = Append(spawned, Cmd("atempo", <<f>>))
            /\ fs' = fs
       ELSE IF IsModerate(f)
       THEN /\ branch' = "moderate"
            /\ pc' = "moderate"
            /\ spawned' = Append(spawned, Cmd("atempo", <<f>>))
            /\ fs' = fs
       ELSE IF RLt(f, Half)
       THEN /\ branch' = "slow"
            /\ pc' = "silence"
            /\ spawned' = Append(spawned, Cmd("anullsrc", <<SilenceDuration(targetDuration)>>))
            /\ fs' = fs
       ELSE /\ branch' = "fast"
            /\ pc' = "chain"
            /\ spawned' = Append(spawned, Cmd("atempo", FilterChain(f)))
            /\ fs' = fs
    /\ UNCHANGED <<montageVars, distillVars, extraVars>>
    /\ UNCHANGED <<currentDuration, targetDuration, exits, verified>>

\* the single atempo of the 0.9-1.1 band exits
MinorExit ==
    /\ pc = "minor"
    /\ \E ok \in BOOLEAN, partial \in BOOLEAN :
        /\ exits' = Append(exits, ok)
        /\ IF ok
           THEN /\ fs' = [fs EXCEPT !["outputPath"] =
                            Atempo(fs["audioPath"], TempoFactor(currentDuration, targetDuration))]
                /\ pc' = "verify"
           ELSE /\ fs' = OuterCatch(AfterFailure("outputPath", partial))
                /\ pc' = "returned"
    /\ UNCHANGED <<montageVars, distillVars, extraVars>>
    /\ UNCHANGED <<currentDuration, targetDuration, branch, spawned, verified>>

\* the single atempo of the 0.5-2.0 band exits
ModerateExit ==
    /\ pc = "moderate"
    /\ \E ok \in BOOLEAN, partial \in BOOLEAN :
        /\ exits' = Append(exits, ok)
        /\ IF ok
           THEN /\ fs' = [fs EXCEPT !["outputPath"] =
                            Atempo(fs["audioPath"], TempoFactor(currentDuration, targetDuration))]
                /\ pc' = "verify"
           ELSE /\ fs' = OuterCatch(AfterFailure("outputPath", partial))
                /\ pc' = "returned"
    /\ UNCHANGED <<montageVars, distillVars, extraVars>>
    /\ UNCHANGED <<currentDuration, targetDuration, branch, spawned, verified>>

\* the inner catch issues the clamped single-stage transform
IssueFallback ==
    Append(spawned, Cmd("atempo", <<ClampedFactor(TempoFactor(currentDuration, targetDuration))>>))

\* the silence generator exits; on success the concat is issued
SilenceExit ==
    /\ pc = "silence"
    /\ \E ok \in BOOLEAN, partial \in BOOLEAN :
        /\ exits' = Append(exits, ok)
        /\ IF ok
           THEN /\ fs' = [fs EXCEPT !["tempSilencePath"] = Silence(SilenceDuration(targetDuration))]
                /\ spawned' = Append(spawned, Cmd("concat", <<>>))
                /\ pc' = "concat"
           ELSE /\ fs' = AfterFailure("tempSilencePath", partial)
                /\ spawned' = IssueFallback
                /\ pc' = "fallback"
    /\ UNCHANGED <<montageVars, distillVars, extraVars>>
    /\ UNCHANGED <<currentDuration, targetDuration, branch, verified>>

\* the concat exits; on success outputPath is copied to tempOutputPath and the
\* residual tempo transform is issued
ConcatExit ==
    /\ pc = "concat"
    /\ \E ok \in BOOLEAN, partial \in BOOLEAN :
        /\ exits' = Append(exits, ok)
        /\ IF ok
           THEN /\ LET combined == Concat(fs["audioPath"], fs["tempSilencePath"])
                   IN fs' = [fs EXCEPT !["outputPath"] = combined, !["tempOutputPath"] = combined]
                /\ spawned' = Append(spawned,
                                Cmd("atempo", <<NewTempoFactor(currentDuration, targetDuration)>>))
                /\ pc' = "tempo"
           ELSE /\ fs' = AfterFailure("outputPath", partial)
                /\ spawned' = IssueFallback
                /\ pc' = "fallback"
    /\ UNCHANGED <<montageVars, distillVars, extraVars>>
    /\ UNCHANGED <<currentDuration, targetDuration, branch, verified>>

\* the residual tempo transform exits; on success both temp files are unlinked
TempoExit ==
    /\ pc = "tempo"
    /\ \E ok \in BOOLEAN, partial \in BOOLEAN :
        /\ exits' = Append(exits, ok)
        /\ IF ok
           THEN /\ fs' = [fs EXCEPT
                            !["outputPath"] = Atempo(fs["tempOutputPath"],
                                                NewTempoFactor(currentDuration, targetDuration)),
                            !["tempOutputPath"] = NoFile,
                            !["tempSilencePath"] = NoFile]
                /\ spawned' = spawned
                /\ pc' = "verify"
           ELSE /\ fs' = AfterFailure("outputPath", partial)
                /\ spawned' = IssueFallback
                /\ pc' = "fallback"
    /\ UNCHANGED <<montageVars, distillVars, extraVars>>
    /\ UNCHANGED <<currentDuration, targetDuration, branch, verified>>

\* the chained atempo command of the speed-up branch exits
ChainExit ==
    /\ pc = "chain"
    /\ \E ok \in BOOLEAN, partial \in BOOLEAN :
        /\ exits' = Append(exits, ok)
        /\ IF ok
           THEN /\ fs' = [fs EXCEPT
                            !["outputPath"] = AtempoChain(fs["audioPath"],
                                                FilterChain(TempoFactor(currentDuration, targetDuration))),
                            !["tempSilencePath"] = NoFile]
                /\ spawned' = spawned
                /\ pc' = "verify"
           ELSE /\ fs' = AfterFailure("outputPath", partial)
                /\ spawned' = IssueFallback
                /\ pc' = "fallback"
    /\ UNCHANGED <<montageVars, distillVars, extraVars>>
    /\ UNCHANGED <<currentDuration, targetDuration, branch, verified>>

\* the clamped fallback transform exits; its failure reaches the outer catch
FallbackExit ==
    /\ pc = "fallback"
    /\ \E ok \in BOOLEAN, partial \in BOOLEAN :
        /\ exits' = Append(exits, ok)
        /\ IF ok
           THEN /\ fs' = [fs EXCEPT !["outputPath"] =
                            Atempo(fs["audioPath"],
                                   ClampedFactor(TempoFactor(currentDuration, targetDuration)))]
                /\ pc' = "verify"
           ELSE /\ fs' = OuterCatch(AfterFailure("outputPath", partial))
                /\ pc' = "returned"
    /\ UNCHANGED <<montageVars, distillVars, extraVars>>
    /\ UNCHANGED <<currentDuration, targetDuration, branch, spawned, verified>>

\* the advisory re-probe of outputPath resolves (a number or null); return outputPath
VerifyExit ==
    /\ pc = "verify"
    /\ \E probe \in {"number", "null"} : verified' = probe
    /\ pc' = "returned"
    /\ UNCHANGED <<montageVars, distillVars, extraVars>>
    /\ UNCHANGED <<currentDuration, targetDuration, branch, fs, spawned, exits>>

Next ==
    \/ AdjustEntry
    \/ MinorExit
    \/ ModerateExit
    \/ SilenceExit
    \/ ConcatExit
    \/ TempoExit
    \/ ChainExit
    \/ FallbackExit
    \/ VerifyExit

Spec == Init /\ [][Next]_vars

(***************************************************************************)
(* Properties of adjustVoiceoverDuration                                   *)
(***************************************************************************)
Returned == pc = "returned"
AnyFailed == \E i \in 1..Len(exits) : ~exits[i]
Output == fs["outputPath"]
\* current / target, written out independently of the model's TempoFactor
Ratio == Norm(<<currentDuration, targetDuration>>)
OutsideNoOpBand == Abs(currentDuration - targetDuration) >= AudioAdjustmentThreshold

RECURSIVE Product(_)
Product(factors) == IF factors = <<>> THEN One ELSE RMul(Head(factors), Product(Tail(factors)))

\* C1: with every transform subprocess succeeding, the output's duration is the
\* target in the moderate, silence-padded and chained branches, and differs
\* from the target by less than the adjustment threshold in the no-op branch.
C1_OutputDurationIsTarget ==
    (Returned /\ ~AnyFailed) =>
        /\ Output.exists
        /\ OutsideNoOpBand =>
              /\ Output.dur = Rat(targetDuration)
              /\ (RLe(Half, Ratio) /\ RLe(Ratio, Two)) => branch \in {"minor", "moderate"}
              /\ RLt(Ratio, Half) => branch = "slow"
              /\ RLt(Two, Ratio) => branch = "fast"
        /\ ~OutsideNoOpBand =>
              /\ branch = "noop"
              /\ LET diff == RAdd(Output.dur, Rat(-targetDuration))
                 IN RLt(<<Abs(diff[1]), diff[2]>>, Rat(AudioAdjustmentThreshold))

\* C11: inside the no-op band no transform subprocess is spawned, the output
\* file is a copy of the input and the input file is left as it was
C11_NoOpBandCopiesInput ==
    (pc # "entry" /\ ~OutsideNoOpBand) =>
        /\ Returned
        /\ spawned = <<>>
        /\ exits = <<>>
        /\ fs["audioPath"] = InputAudio(currentDuration)
        /\ Output = InputAudio(currentDuration)

\* a call that returned from the no-op band with unequal durations
C11_Witness ==
    /\ Returned
    /\ branch = "noop"
    /\ currentDuration # targetDuration
    /\ Output.exists

\* C1 witness: a chained speed-up of three stages returned with every stage succeeding
C1_Witness ==
    /\ Returned /\ ~AnyFailed /\ branch = "fast"
    /\ Len(Output.hist) >= 3
    /\ Output.dur = Rat(targetDuration)

\* C4 (as claimed): after any transform failure outside the no-op band the file
\* at outputPath is a copy of the unmodified input.
C4_FailureLeavesInputCopy ==
    (Returned /\ AnyFailed) => Output = InputAudio(currentDuration)

\* C4 (amended): after a transform failure the call returns outputPath; the file
\* is a copy of the input in the moderate branch and when the clamped fallback
\* failed too, and it is the input stretched once by the clamped factor (0.5 or
\* 2.0) when the clamped fallback of an extreme branch succeeded.
C4_FailureLeavesCopyOrClampedStretch ==
    (Returned /\ AnyFailed) =>
        IF branch \in {"minor", "moderate"} \/ ~exits[Len(exits)]
        THEN Output = InputAudio(currentDuration)
        ELSE LET k == IF branch = "slow" THEN Half ELSE Two
             IN /\ branch \in {"slow", "fast"}
                /\ Output = [exists |-> TRUE,
                             dur |-> RDiv(Rat(currentDuration), k),
                             hist |-> <<[op |-> "atempo", arg |-> k]>>]

\* C4 witness: the residual tempo transform failed after silence and concat
\* succeeded, and the clamped fallback then succeeded
C4_Witness ==
    /\ Returned /\ branch = "slow"
    /\ exits = <<TRUE, TRUE, FALSE, TRUE>>

ChainOK(chain, f) ==
    /\ Len(chain) >= 2
    /\ \A i \in 1..Len(chain) : RLt(One, chain[i]) /\ RLe(chain[i], Two)
    /\ Product(chain) = f

\* C5 (as claimed): for every tempo factor above 2.0 a chain of at least two
\* atempo stages is built, each stage in (1.0, 2.0], their product the factor.
C5_ChainForEveryFactorAboveTwo ==
    (pc # "entry" /\ RLt(Two, Ratio)) =>
        /\ Len(spawned) >= 1
        /\ spawned[1].cmd = "atempo"
        /\ ChainOK(spawned[1].factors, Ratio)

\* C5 (amended): the same, for every tempo factor above 2.0 whose durations
\* differ by at least the adjustment threshold (outside the no-op band).
C5_ChainOutsideNoOpBand ==
    (pc # "entry" /\ RLt(Two, Ratio) /\ OutsideNoOpBand) =>
        /\ Len(spawned) >= 1
        /\ spawned[1].cmd = "atempo"
        /\ ChainOK(spawned[1].factors, Ratio)

\* C5 witness: a factor above 4 that needs three stages, the last one below 2.0
C5_Witness ==
    /\ pc = "chain" /\ RLt(<<4, 1>>, Ratio)
    /\ Len(spawned[1].factors) = 3
    /\ RLt(spawned[1].factors[3], Two)

\* the three commands of the silence-padded branch, from the claim's formulas
SilencePlan ==
    LET half == Norm(<<targetDuration, 2>>)
        residual == Norm(<<2 * currentDuration + targetDuration, 2 * targetDuration>>)
    IN  <<Cmd("anullsrc", <<half>>), Cmd("concat", <<>>), Cmd("atempo", <<residual>>)>>

SilencePaddedAsPlanned ==
    LET half == Norm(<<targetDuration, 2>>)
        residual == Norm(<<2 * currentDuration + targetDuration, 2 * targetDuration>>)
    IN  /\ Len(spawned) >= 1
        \* each planned command is issued once the previous ones succeeded
        /\ \A i \in 1..Len(spawned) :
              (i <= 3 /\ \A j \in 1..(i - 1) : j <= Len(exits) /\ exits[j])
                  => spawned[i] = SilencePlan[i]
        /\ ~AnyFailed => Len(spawned) <= 3
        /\ RLe(Half, residual) /\ RLe(residual, Two)
        /\ (Returned /\ ~AnyFailed) =>
              Output.hist = <<[op |-> "concat", arg |-> half], [op |-> "atempo", arg |-> residual]>>

\* C6 (as claimed): for every tempo factor below 0.5, silence of 0.5 x target
\* is appended and exactly one tempo transform with factor
\* (current + 0.5 x target) / target is applied; that factor is in [0.5, 2.0].
C6_SilencePaddedForEveryFactorBelowHalf ==
    (pc # "entry" /\ RLt(Ratio, Half)) => SilencePaddedAsPlanned

\* C6 (amended): the same, for every tempo factor below 0.5 whose durations
\* differ by at least the adjustment threshold (outside the no-op band).
C6_SilencePaddedOutsideNoOpBand ==
    (pc # "entry" /\ RLt(Ratio, Half) /\ OutsideNoOpBand) => SilencePaddedAsPlanned

\* C6 witness: the silence-padded branch returned after silence, concat and the
\* residual tempo transform all succeeded
C6_Witness ==
    /\ Returned /\ branch = "slow" /\ exits = <<TRUE, TRUE, TRUE>>
    /\ Len(Output.hist) = 2

(***************************************************************************)
(* createVideoMontage                                                      *)
(***************************************************************************)
\* config.videoDuration || 15, in ticks (15 s)
ConfigVideoDuration == 450

\* config.voiceoverDurationRatio, default 0.93
VoiceoverDurationRatio == <<93, 100>>

\* how an awaited stage may settle: any way, or as the shared outcomes say
Outcome(stage, all) ==
    IF stageOutcomes.kind = "free" THEN all ELSE {stageOutcomes[stage]}

\* what ffprobe can report for the concatenated clips (10 s, 15 s, 20 s)
VideoDurations == {300, 450, 600}

\* what ffprobe can report for the narration, as an offset from its target
VoiceoverOffsets == {-90, 0, AudioAdjustmentThreshold, AudioAdjustmentThreshold + 1}

\* targetVoiceoverDuration = targetDuration * config.voiceoverDurationRatio
TargetVoiceoverDuration(target) == RMul(Rat(target), VoiceoverDurationRatio)

\* Math.abs(voiceoverDuration - targetVoiceoverDuration) > config.audioAdjustmentThreshold
NeedsAdjustment(measured, target) ==
    LET diff == RAdd(measured, <<-TargetVoiceoverDuration(target)[1], TargetVoiceoverDuration(target)[2]>>)
    IN  RLt(Rat(AudioAdjustmentThreshold), <<Abs(diff[1]), diff[2]>>)

Volume(index, level, out) ==
    [filter |-> "volume", in |-> <<index>>, labels |-> <<>>, level |-> level, out |-> out]
Amix(labels, out) ==
    [filter |-> "amix", in |-> <<>>, labels |-> labels, level |-> "longest", out |-> out]

\* soundtrackUsed = config.useCustomSoundtrack && fs.existsSync(config.soundtrackPath)
SoundtrackUsed(cfg) == cfg.useCustomSoundtrack /\ cfg.soundtrackExists

\* the inputs of the final command: temp montage, then voiceover, then soundtrack
MontageInputs(vp, cfg) ==
    <<"tempOutputPath">>
        \o (IF vp # "null" THEN <<vp>> ELSE <<>>)
        \o (IF SoundtrackUsed(cfg) THEN <<"soundtrackPath">> ELSE <<>>)

\* mutant: original audio is kept (-map 0) under a soundtrack when not removed
MontageAudioMappingKeepsOriginal(vp, cfg) ==
    IF cfg.aiVoiceoverEnabled /\ vp # "null" THEN <<"-map", "0:v", "-map", "[a]">>
    ELSE IF ~cfg.removeAudio THEN <<"-map", "0">>
    ELSE IF SoundtrackUsed(cfg) THEN <<"-map", "0:v", "-map", "[a]">>
    ELSE <<"-map", "0:v">>

\* audioMapping.split(" ")
MontageAudioMapping(vp, cfg) ==
    IF cfg.aiVoiceoverEnabled /\ vp # "null" THEN <<"-map", "0:v", "-map", "[a]">>
    ELSE IF SoundtrackUsed(cfg) THEN <<"-map", "0:v", "-map", "[a]">>
    ELSE IF ~cfg.removeAudio THEN <<"-map", "0">>
    ELSE <<"-map", "0:v">>

\* mutant: the soundtrack is always taken to be the third input
MontageFilterComplexFixedIndex(vp, cfg) ==
    LET voiceoverIndex == 1
        soundtrackIndex == 2
    IN  IF cfg.aiVoiceoverEnabled /\ vp # "null"
        THEN IF ~SoundtrackUsed(cfg)
             THEN <<Volume(voiceoverIndex, "voiceoverVolume", "a")>>
             ELSE <<Volume(voiceoverIndex, "voiceoverVolume", "voice"),
                    Volume(soundtrackIndex, "soundtrackVolume", "music"),
                    Amix(<<"voice", "music">>, "a")>>
        ELSE IF SoundtrackUsed(cfg)
        THEN <<Volume(soundtrackIndex, "soundtrackVolume", "a")>>
        ELSE <<>>

\* filterComplex, one record per filter of the graph
MontageFilterComplex(vp, cfg) ==
    LET voiceoverIndex == 1
        soundtrackIndex == IF vp # "null" THEN 2 ELSE 1
    IN  IF cfg.aiVoiceoverEnabled /\ vp # "null"
        THEN IF ~SoundtrackUsed(cfg)
             THEN <<Volume(voiceoverIndex, "voiceoverVolume", "a")>>
             ELSE <<Volume(voiceoverIndex, "voiceoverVolume", "voice"),
                    Volume(soundtrackIndex, "soundtrackVolume", "music"),
                    Amix(<<"voice", "music">>, "a")>>
        ELSE IF SoundtrackUsed(cfg)
        THEN <<Volume(soundtrackIndex, "soundtrackVolume", "a")>>
        ELSE <<>>

\* the final-assembly command line
MontageArgs(vp, cfg, target) ==
    [inputs |-> MontageInputs(vp, cfg),
     filterComplex |-> MontageFilterComplex(vp, cfg),
     maps |-> MontageAudioMapping(vp, cfg),
     t |-> target]

MontageInit ==
    /\ AdjustIdle
    /\ DistillIdle
    /\ ExtraIdle
    /\ mpc = "concat"
    /\ mcfg \in [aiVoiceoverEnabled : BOOLEAN, useCustomSoundtrack : BOOLEAN,
                 soundtrackExists : BOOLEAN, removeAudio : BOOLEAN]
    /\ clipCount \in 1..MaxClips
    /\ videoDuration = 0
    /\ montageTarget = 0
    /\ voiceoverPath = "null"
    /\ voiceoverDuration = NullDuration
    /\ margs = NoArgs
    /\ tempMontage = FALSE

\* the synchronous code that builds the final command and spawns it
BuildFinal(vp) ==
    /\ voiceoverPath' = vp
    /\ margs' = MontageArgs(vp, mcfg, montageTarget)
    /\ mpc' = "final"

\* the clip concatenation exits
MontageConcatExit ==
    /\ mpc = "concat"
    /\ \E ok \in BOOLEAN :
        IF ok THEN mpc' = "probeVideo" /\ tempMontage' = TRUE
        ELSE mpc' = "rejected" /\ tempMontage' = tempMontage
    /\ UNCHANGED <<mcfg, clipCount, videoDuration, montageTarget, voiceoverPath,
                   voiceoverDuration, margs>>
    /\ UNCHANGED <<adjustVars, distillVars, extraVars>>

\* getVideoDuration(tempOutputPath) resolves to null: the builder throws
MontageVideoProbeNull ==
    /\ mpc = "probeVideo"
    /\ mpc' = "rejected"
    /\ UNCHANGED <<mcfg, clipCount, videoDuration, montageTarget, voiceoverPath,
                   voiceoverDuration, margs, tempMontage>>
    /\ UNCHANGED <<adjustVars, distillVars, extraVars>>

\* getVideoDuration resolves to a number; without AI voiceover the final
\* command is built at once
MontageVideoProbed ==
    /\ mpc = "probeVideo"
    /\ \E d \in VideoDurations :
        /\ videoDuration' = d
        /\ montageTarget' = Min(d, ConfigVideoDuration)
        /\ IF mcfg.aiVoiceoverEnabled
           THEN mpc' = "script" /\ UNCHANGED <<voiceoverPath, margs>>
           ELSE /\ voiceoverPath' = voiceoverPath
                /\ margs' = MontageArgs(voiceoverPath, mcfg, Min(d, ConfigVideoDuration))
                /\ mpc' = "final"
    /\ UNCHANGED <<mcfg, clipCount, voiceoverDuration, tempMontage>>
    /\ UNCHANGED <<adjustVars, distillVars, extraVars>>

\* createVoiceoverScript settles
MontageScriptExit ==
    /\ mpc = "script"
    /\ \E ok \in Outcome("script", BOOLEAN) :
        IF ok THEN mpc' = "synth" /\ UNCHANGED <<voiceoverPath, margs>>
        ELSE BuildFinal(voiceoverPath)
    /\ UNCHANGED <<mcfg, clipCount, videoDuration, montageTarget, voiceoverDuration, tempMontage>>
    /\ UNCHANGED <<adjustVars, distillVars, extraVars>>

\* generateVoiceover settles; a rejection is caught and the build goes on
MontageSynthExit ==
    /\ mpc = "synth"
    /\ \E ok \in Outcome("synth", BOOLEAN) :
        IF ok THEN /\ voiceoverPath' = "voiceoverOutputPath"
                   /\ mpc' = "probe"
                   /\ margs' = margs
        ELSE BuildFinal(voiceoverPath)
    /\ UNCHANGED <<mcfg, clipCount, videoDuration, montageTarget, voiceoverDuration, tempMontage>>
    /\ UNCHANGED <<adjustVars, distillVars, extraVars>>

\* getAudioDuration(voiceoverPath) resolves to null
MontageProbeNull ==
    /\ mpc = "probe"
    /\ FALSE \in Outcome("probed", BOOLEAN)
    /\ voiceoverDuration' = NullDuration
    /\ BuildFinal(voiceoverPath)
    /\ UNCHANGED <<mcfg, clipCount, videoDuration, montageTarget, tempMontage>>
    /\ UNCHANGED <<adjustVars, distillVars, extraVars>>

\* getAudioDuration(voiceoverPath) resolves to a number
MontageProbed ==
    /\ mpc = "probe"
    /\ TRUE \in Outcome("probed", BOOLEAN)
    /\ \E off \in Outcome("offset", VoiceoverOffsets) :
        LET measured == RAdd(TargetVoiceoverDuration(montageTarget), Rat(off)) IN
        /\ voiceoverDuration' = measured
        /\ IF NeedsAdjustment(measured, montageTarget)
           THEN mpc' = "extend" /\ UNCHANGED <<voiceoverPath, margs>>
           ELSE BuildFinal(voiceoverPath)
    /\ UNCHANGED <<mcfg, clipCount, videoDuration, montageTarget, tempMontage>>
    /\ UNCHANGED <<adjustVars, distillVars, extraVars>>

\* extendAudioToFillDuration: its own probe fails and it throws (caught by the
\* builder, which keeps the raw narration), or adjustVoiceoverDuration resolves
MontageExtendExit ==
    /\ mpc = "extend"
    /\ \E probed \in Outcome("extend", BOOLEAN) :
        IF probed THEN /\ voiceoverPath' = "adjustedOutputPath"
                       /\ mpc' = "reprobe"
                       /\ margs' = margs
        ELSE BuildFinal(voiceoverPath)
    /\ UNCHANGED <<mcfg, clipCount, videoDuration, montageTarget, voiceoverDuration, tempMontage>>
    /\ UNCHANGED <<adjustVars, distillVars, extraVars>>

\* the re-probe of the adjusted narration resolves (logged only)
MontageReprobeExit ==
    /\ mpc = "reprobe"
    /\ BuildFinal(voiceoverPath)
    /\ UNCHANGED <<mcfg, clipCount, videoDuration, montageTarget, voiceoverDuration, tempMontage>>
    /\ UNCHANGED <<adjustVars, distillVars, extraVars>>

\* the final assembly exits; on success the temp montage is unlinked
MontageFinalExit ==
    /\ mpc = "final"
    /\ \E ok \in BOOLEAN :
        IF ok THEN mpc' = "resolved" /\ tempMontage' = FALSE
        ELSE mpc' = "rejected" /\ tempMontage' = tempMontage
    /\ UNCHANGED <<mcfg, clipCount, videoDuration, montageTarget, voiceoverPath,
                   voiceoverDuration, margs>>
    /\ UNCHANGED <<adjustVars, distillVars, extraVars>>

MontageNext ==
    \/ MontageConcatExit
    \/ MontageVideoProbeNull
    \/ MontageVideoProbed
    \/ MontageScriptExit
    \/ MontageSynthExit
    \/ MontageProbeNull
    \/ MontageProbed
    \/ MontageExtendExit
    \/ MontageReprobeExit
    \/ MontageFinalExit

SpecMontage == MontageInit /\ [][MontageNext]_vars

(***************************************************************************)
(* Properties of createVideoMontage                                        *)
(***************************************************************************)
CommandBuilt == mpc \in {"final", "resolved"} \/ (mpc = "rejected" /\ margs # NoArgs)

\* the file behind ffmpeg input index i (0-based) of the final command
InputAt(i) == IF i + 1 \in 1..Len(margs.inputs) THEN margs.inputs[i + 1] ELSE "missing"

HasNarration == \E i \in 1..Len(margs.inputs) :
                    margs.inputs[i] \in {"voiceoverOutputPath", "adjustedOutputPath"}
HasSoundtrack == \E i \in 1..Len(margs.inputs) : margs.inputs[i] = "soundtrackPath"
KeepOriginalAudio == ~mcfg.removeAudio

IsNarrationFile(name) == name \in {"voiceoverOutputPath", "adjustedOutputPath"}

\* the mixing topologies of the table, read off the command that was built
TopologyMix ==
    /\ Len(margs.filterComplex) = 3
    /\ margs.filterComplex[1].filter = "volume"
    /\ IsNarrationFile(InputAt(margs.filterComplex[1].in[1]))
    /\ margs.filterComplex[1].level = "voiceoverVolume"
    /\ margs.filterComplex[2].filter = "volume"
    /\ InputAt(margs.filterComplex[2].in[1]) = "soundtrackPath"
    /\ margs.filterComplex[2].level = "soundtrackVolume"
    /\ margs.filterComplex[3].filter = "amix"
    /\ margs.filterComplex[3].labels =
          <<margs.filterComplex[1].out, margs.filterComplex[2].out>>
    /\ margs.filterComplex[3].level = "longest"
    /\ margs.maps = <<"-map", "0:v", "-map", "[" \o margs.filterComplex[3].out \o "]">>
TopologyNarration ==
    /\ Len(margs.filterComplex) = 1
    /\ margs.filterComplex[1].filter = "volume"
    /\ IsNarrationFile(InputAt(margs.filterComplex[1].in[1]))
    /\ margs.filterComplex[1].level = "voiceoverVolume"
    /\ margs.maps = <<"-map", "0:v", "-map", "[" \o margs.filterComplex[1].out \o "]">>
TopologySoundtrack ==
    /\ Len(margs.filterComplex) = 1
    /\ margs.filterComplex[1].filter = "volume"
    /\ InputAt(margs.filterComplex[1].in[1]) = "soundtrackPath"
    /\ margs.filterComplex[1].level = "soundtrackVolume"
    /\ margs.maps = <<"-map", "0:v", "-map", "[" \o margs.filterComplex[1].out \o "]">>
TopologyOriginal == margs.filterComplex = <<>> /\ margs.maps = <<"-map", "0">>
TopologyVideoOnly == margs.filterComplex = <<>> /\ margs.maps = <<"-map", "0:v">>

TopologyCount ==
    Cardinality({k \in 1..5 :
        \/ k = 1 /\ TopologyMix
        \/ k = 2 /\ TopologyNarration
        \/ k = 3 /\ TopologySoundtrack
        \/ k = 4 /\ TopologyOriginal
        \/ k = 5 /\ TopologyVideoOnly})

\* the original audio of input 0 reaches the output
OriginalAudioMapped ==
    \E i \in 1..Len(margs.maps) : margs.maps[i] \in {"0", "0:a"}

\* C3: for each combination of (hasNarration, hasSoundtrack, keepOriginalAudio)
\* exactly one mixing topology is selected and it is the one the table gives;
\* with narration or soundtrack present the original audio is never mapped.
C3_TopologyMatchesTable ==
    CommandBuilt =>
        /\ TopologyCount = 1
        /\ (HasNarration /\ HasSoundtrack) => TopologyMix
        /\ (HasNarration /\ ~HasSoundtrack) => TopologyNarration
        /\ (~HasNarration /\ HasSoundtrack) => TopologySoundtrack
        /\ (~HasNarration /\ ~HasSoundtrack /\ KeepOriginalAudio) => TopologyOriginal
        /\ (~HasNarration /\ ~HasSoundtrack /\ ~KeepOriginalAudio) => TopologyVideoOnly
        /\ (HasNarration \/ HasSoundtrack) => ~OriginalAudioMapped
        /\ HasNarration <=> (voiceoverPath # "null")
        /\ HasSoundtrack <=> SoundtrackUsed(mcfg)

\* C3 witness: a soundtrack without narration while the original audio is kept
C3_Witness ==
    /\ mpc = "resolved"
    /\ ~HasNarration /\ HasSoundtrack /\ KeepOriginalAudio
    /\ TopologySoundtrack


(***************************************************************************)
(* The summarizer (transcript-summarizer), called by createVoiceoverScript *)
(***************************************************************************)
\* the pieces found by the exec loop over /[.!?]+\s+/g, and the remainder
RegexSentences(text) ==
    LET n == Len(text)
        ends == SelectSeq(Indices(text), LAMBDA e :
                    /\ IsWs(text[e])
                    /\ (e = n \/ ~IsWs(text[e + 1]))
                    /\ LastNonWs(text, e) >= 1
                    /\ IsPunct(text[LastNonWs(text, e)]))
        lastIndex == IF Len(ends) = 0 THEN 0 ELSE ends[Len(ends)]
    IN  [k \in 1..Len(ends) |->
            SubSeq(text, IF k = 1 THEN 1 ELSE ends[k - 1] + 1, ends[k])]
            \o (IF lastIndex < n THEN <<SubSeq(text, lastIndex + 1, n)>> ELSE <<>>)

\* the loop "for (const sentence of sentences)" of truncateAtSentenceBoundary
RECURSIVE TakeWhileFits(_, _, _, _, _)
TakeWhileFits(sentences, i, wordCount, result, budget) ==
    IF i > Len(sentences) THEN result
    ELSE LET sentenceWords == WordCount(Trim(sentences[i])) IN
         IF wordCount + sentenceWords > budget THEN result
         ELSE TakeWhileFits(sentences, i + 1, wordCount + sentenceWords,
                            result \o sentences[i], budget)

\* truncateAtSentenceBoundary of the summarizer
TruncateAtSentenceBoundary(text, budget) ==
    Trim(TakeWhileFits(RegexSentences(text), 1, 0, <<>>, budget))

\* fallbackDistillation
FallbackDistillation(text, targetWordCount) ==
    LET parts == SplitBar(MarkSentenceEnds(text))
        trimmed == [k \in 1..Len(parts) |-> Trim(parts[k])]
        sentences == SelectSeq(trimmed, LAMBDA x : Len(x) > 0)
        middleIndex == Len(sentences) \div 2
        extractedSentences ==
            <<sentences[1], sentences[middleIndex + 1], sentences[Len(sentences)]>>
    IN  IF Len(sentences) <= 3
        THEN TruncateAtSentenceBoundary(Join(sentences, <<" ">>), targetWordCount)
        ELSE TruncateAtSentenceBoundary(Join(extractedSentences, <<" ">>), targetWordCount)

\* summarizeTranscript after model.invoke resolved with this summary
SummaryWithinBudget(summary, targetWordCount) ==
    IF WordCount(summary) > targetWordCount
    THEN TruncateAtSentenceBoundary(summary, targetWordCount)
    ELSE summary

\* mutant: a transcript of exactly targetWordCount words is not short-circuited
SummarizeTranscriptEntryStrict(text, targetWordCount, openAiApiKey) ==
    IF Trim(text) = <<>>
    THEN [dpc |-> "done", llm |-> "none", script |-> <<>>]
    ELSE IF WordCount(text) < targetWordCount
    THEN [dpc |-> "done", llm |-> "none", script |-> text]
    ELSE IF ~openAiApiKey
    THEN [dpc |-> "done", llm |-> "unavailable",
          script |-> FallbackDistillation(text, targetWordCount)]
    ELSE [dpc |-> "llm", llm |-> "pending", script |-> <<>>]

\* summarizeTranscript up to its first await: blank transcript, transcript
\* within the budget, missing API key, or model.invoke pending
SummarizeTranscriptEntry(text, targetWordCount, openAiApiKey) ==
    IF Trim(text) = <<>>
    THEN [dpc |-> "done", llm |-> "none", script |-> <<>>]
    ELSE IF WordCount(text) <= targetWordCount
    THEN [dpc |-> "done", llm |-> "none", script |-> text]
    ELSE IF ~openAiApiKey
    THEN [dpc |-> "done", llm |-> "unavailable",
          script |-> FallbackDistillation(text, targetWordCount)]
    ELSE [dpc |-> "llm", llm |-> "pending", script |-> <<>>]

(***************************************************************************)
(* Inputs of the distiller: transcripts of up to MaxSentences sentences.   *)
(* Sentence k starts with the k-th capital, continues with one-letter      *)
(* words (or HTML entities) and ends with its terminal mark, if any.  The   *)
(* transcript may begin with white space, or be white space only.          *)
(***************************************************************************)
SentenceKinds ==
    { [len |-> 1, term |-> ".", filler |-> "x"],
      [len |-> 7, term |-> ".", filler |-> "&amp;#39;"],
      [len |-> 11, term |-> "!", filler |-> "x"],
      [len |-> 11, term |-> "", filler |-> "x"] }

WordBudgets == {1, 8, 20, 21, 25}

Fill(n, filler) == [i \in 1..(2 * n) |-> IF i % 2 = 1 THEN " " ELSE filler]

Sentence(k, kind) ==
    <<Capitals[k]>> \o Fill(kind.len - 1, kind.filler)
        \o (IF kind.term = "" THEN <<>> ELSE <<kind.term>>)

\* what the language model may answer: the text itself or its first sentence
LlmSummaries(text) == {text, SplitIntoSentences(text)[1]}

DistillInit ==
    /\ AdjustIdle
    /\ MontageIdle
    /\ ExtraIdle
    /\ transcript \in {<<>>, <<" ">>}
    /\ sentenceCount = 0
    /\ dpc = "input"
    /\ maxWords = 0
    /\ script = <<>>
    /\ via = "none"
    /\ llm = "none"
    /\ summarizerCalls = <<>>

\* the caller's transcript grows by one sentence
AppendSentence ==
    /\ dpc = "input"
    /\ sentenceCount < MaxSentences
    /\ \E kind \in SentenceKinds :
           transcript' = (IF transcript = <<>> THEN <<>> ELSE transcript \o <<" ">>)
                             \o Sentence(sentenceCount + 1, kind)
    /\ sentenceCount' = sentenceCount + 1
    /\ UNCHANGED <<dpc, maxWords, script, via, llm, summarizerCalls>>
    /\ UNCHANGED <<adjustVars, montageVars, extraVars>>

\* legacyCreateVoiceoverScript(transcript, budget)
LegacyDistill ==
    /\ dpc = "input"
    /\ \E budget \in WordBudgets :
           /\ maxWords' = budget
           /\ script' = LegacyCreateVoiceoverScript(transcript, budget)
    /\ via' = "legacy"
    /\ dpc' = "done"
    /\ UNCHANGED <<transcript, sentenceCount, llm, summarizerCalls>>
    /\ UNCHANGED <<adjustVars, montageVars, extraVars>>

\* createVoiceoverScript(transcript, budget) up to the first await inside
\* summarizeTranscript: empty transcript, short transcript, missing API key
CreateVoiceoverScriptCall ==
    /\ dpc = "input"
    /\ \E budget \in WordBudgets, openAiApiKey \in BOOLEAN :
         LET decodedTranscript == DecodeHtmlEntities(transcript) IN
           /\ maxWords' = budget
           /\ summarizerCalls' = Append(summarizerCalls,
                                        [text |-> decodedTranscript, budget |-> budget])
           /\ LET entry == SummarizeTranscriptEntry(decodedTranscript, budget, openAiApiKey)
              IN  script' = entry.script /\ llm' = entry.llm /\ dpc' = entry.dpc
    /\ via' = "create"
    /\ UNCHANGED <<transcript, sentenceCount>>
    /\ UNCHANGED <<adjustVars, montageVars, extraVars>>

\* model.invoke resolves; the summary is cut at a sentence boundary if too long
LlmReplies ==
    /\ dpc = "llm"
    /\ \E summary \in LlmSummaries(summarizerCalls[1].text) :
           script' = SummaryWithinBudget(summary, maxWords)
    /\ llm' = "replied"
    /\ dpc' = "done"
    /\ UNCHANGED <<transcript, sentenceCount, maxWords, via, summarizerCalls>>
    /\ UNCHANGED <<adjustVars, montageVars, extraVars>>

\* model.invoke rejects; the catch inside summarizeTranscript returns its own
\* fallback, so the catch of createVoiceoverScript is not entered
LlmFails ==
    /\ dpc = "llm"
    /\ script' = FallbackDistillation(summarizerCalls[1].text, maxWords)
    /\ llm' = "failed"
    /\ dpc' = "done"
    /\ UNCHANGED <<transcript, sentenceCount, maxWords, via, summarizerCalls>>
    /\ UNCHANGED <<adjustVars, montageVars, extraVars>>

DistillNext ==
    \/ AppendSentence
    \/ LegacyDistill
    \/ CreateVoiceoverScriptCall
    \/ LlmReplies
    \/ LlmFails

SpecDistill == DistillInit /\ [][DistillNext]_vars


(***************************************************************************)
(* Properties of the text distiller                                        *)
(***************************************************************************)
LegacyReturned == dpc = "done" /\ via = "legacy"

\* the number of whitespace-delimited words
Words(t) ==
    Cardinality({i \in 1..Len(t) : t[i] # " " /\ (i = 1 \/ t[i - 1] = " ")})

ExceedsBudget == WordCount(transcript) > maxWords

Sentences == SplitIntoSentences(transcript)

IsPrefix(p, t) == Len(p) <= Len(t) /\ SubSeq(t, 1, Len(p)) = p

Occurs(p, t) == \E o \in 0..(Len(t) - Len(p)) : SubSeq(t, o + 1, o + Len(p)) = p

ContainsTerminal(t) == \E i \in 1..Len(t) : IsPunct(t[i])

EndsInTerminal(t) ==
    LastNonWs(t, Len(t)) >= 1 /\ IsPunct(t[LastNonWs(t, Len(t))])

\* C2: whatever path produced it, the script returned by
\* legacyCreateVoiceoverScript has at most targetWordCount words
C2_LegacyScriptWithinBudget ==
    LegacyReturned => Words(script) <= maxWords /\ WordCount(script) <= maxWords

\* the formatted three-zone selection was over the budget and was cut to it
C2_Witness ==
    /\ LegacyReturned
    /\ maxWords > VeryShortMaxWords
    /\ Len(Sentences) > 3
    /\ ExceedsBudget
    /\ Words(ExtractDistributedKeyContent(Sentences, maxWords)) > maxWords
    /\ Words(script) = maxWords

ZonePath ==
    /\ LegacyReturned
    /\ maxWords > VeryShortMaxWords
    /\ Len(Sentences) > 3
    /\ ExceedsBudget

Quarter(n) == IF n \div 4 > 1 THEN n \div 4 ELSE 1

\* the three zones, as sets of sentence numbers (from 1)
LeadingQuarter(n) == 1..Quarter(n)
MiddleWindow(n) ==
    ((n \div 2) - (Quarter(n) \div 2) + 1)..((n \div 2) + (Quarter(n) \div 2) + (Quarter(n) % 2))
TrailingQuarter(n) == (n - Quarter(n) + 1)..n

\* the sentence numbers of the zones in candidate order
Candidates(n) ==
    [k \in 1..Quarter(n) |-> k]
        \o [k \in 1..Cardinality(MiddleWindow(n)) |-> (n \div 2) - (Quarter(n) \div 2) + k]
        \o [k \in 1..Quarter(n) |-> n - Quarter(n) + k]

MicroPath ==
    /\ LegacyReturned
    /\ maxWords <= VeryShortMaxWords
    /\ ExceedsBudget
    /\ Len(Sentences) >= 1

\* C9: on the micro path the script is the first sentence followed by the
\* last when the two fit the budget together, otherwise the first sentence
\* alone, cut to the budget only when it alone is too long
C9_MicroSummaryIsFirstAndLast ==
    MicroPath =>
        LET first == Sentences[1]
            last == Sentences[Len(Sentences)]
        IN  IF Len(Sentences) > 1 /\ Words(first) + Words(last) <= maxWords
            THEN script = first \o <<" ">> \o last
            ELSE IF Words(first) <= maxWords
            THEN script = first
            ELSE /\ IsPrefix(script, first)
                 /\ Words(script) = maxWords
                 /\ first[Len(script) + 1] = " "

\* first and last fit together and the sentences between them are left out
C9_Witness ==
    /\ MicroPath
    /\ Len(Sentences) > 2
    /\ script = Sentences[1] \o <<" ">> \o Sentences[Len(Sentences)]

\* C10: createVoiceoverScript calls the summarizer once, with the decoded
\* transcript and the same budget, and when the language model fails or is
\* unavailable it resolves with the legacy distillation of the decoded
\* transcript
C10_FailureFallsBackToLegacy ==
    (dpc = "done" /\ via = "create") =>
        /\ summarizerCalls =
               <<[text |-> DecodeHtmlEntities(transcript), budget |-> maxWords]>>
        /\ llm \in {"failed", "unavailable"} =>
               script = LegacyCreateVoiceoverScript(DecodeHtmlEntities(transcript), maxWords)
\* the text handed to the distilling function
DistillInput == IF via = "create" THEN summarizerCalls[1].text ELSE transcript

IsBlank(t) == \A i \in 1..Len(t) : t[i] = " "

\* C12 as stated: a transcript within the budget is returned unchanged by
\* summarizeTranscript and by legacyCreateVoiceoverScript
C12_WithinBudgetReturnedUnchanged ==
    (dpc = "done" /\ WordCount(DistillInput) <= maxWords) => script = DistillInput

\* C12, amended: a transcript within the budget is returned unchanged, except
\* that summarizeTranscript returns the empty string for a blank one; and the
\* returned script, distilled again with the same budget, comes back unchanged
C12_NonBlankWithinBudgetReturnedUnchanged ==
    dpc = "done" =>
        /\ WordCount(DistillInput) <= maxWords =>
               script = (IF via = "create" /\ IsBlank(DistillInput) THEN <<>> ELSE DistillInput)
        /\ via = "legacy" => LegacyCreateVoiceoverScript(script, maxWords) = script
        /\ via = "create" =>
               \A openAiApiKey \in BOOLEAN :
                   SummarizeTranscriptEntry(script, maxWords, openAiApiKey)
                       = [dpc |-> "done", llm |-> "none", script |-> script]

\* summarizeTranscript short-circuited on a transcript of exactly the budget
C12_Witness ==
    /\ dpc = "done"
    /\ via = "create"
    /\ sentenceCount > 1
    /\ WordCount(DistillInput) = maxWords
    /\ script = DistillInput


(***************************************************************************)
(* getAudioDuration: ffprobe through childProcess.exec                     *)
(***************************************************************************)
Null == [kind |-> "null"]
Number(r) == [kind |-> "number", value |-> r]
NaN == [kind |-> "NaN"]

Digits == <<"0", "1", "2", "3", "4", "5", "6", "7", "8", "9">>
IsDigit(c) == \E k \in 1..10 : Digits[k] = c
DigitValue(c) == (CHOOSE k \in 1..10 : Digits[k] = c) - 1

\* the first position at or after i that holds no digit
RECURSIVE DigitsEnd(_, _)
DigitsEnd(t, i) == IF i <= Len(t) /\ IsDigit(t[i]) THEN DigitsEnd(t, i + 1) ELSE i

\* the natural number written by the digits t[i..j]
RECURSIVE DigitsValue(_, _, _)
DigitsValue(t, i, j) ==
    IF i > j THEN 0 ELSE 10 * DigitsValue(t, i, j - 1) + DigitValue(t[j])

RECURSIVE Pow10(_)
Pow10(k) == IF k = 0 THEN 1 ELSE 10 * Pow10(k - 1)

\* parseFloat on decimal literals without exponent: leading white space is
\* skipped, the longest prefix that is a number is converted and whatever
\* follows it is ignored; NaN when there is no such prefix
ParseFloat(t) ==
    LET start == FirstNonWs(t, 1)
        signed == start <= Len(t) /\ t[start] \in {"-", "+"}
        intStart == IF signed THEN start + 1 ELSE start
        intEnd == DigitsEnd(t, intStart)
        hasDot == intEnd <= Len(t) /\ t[intEnd] = "."
        fracEnd == IF hasDot THEN DigitsEnd(t, intEnd + 1) ELSE intEnd
        fracLen == IF hasDot THEN fracEnd - intEnd - 1 ELSE 0
        magnitude == RAdd(Rat(DigitsValue(t, intStart, intEnd - 1)),
                          Norm(<<DigitsValue(t, intEnd + 1, fracEnd - 1), Pow10(fracLen)>>))
    IN  IF intEnd = intStart /\ fracLen = 0 THEN NaN
        ELSE IF signed /\ t[start] = "-"
        THEN Number(<<-magnitude[1], magnitude[2]>>)
        ELSE Number(magnitude)

\* mutant: what ffprobe writes to stderr is not looked at
ExecCallbackIgnoresStderr(error, stdout, stderr) ==
    IF error THEN Null
    ELSE IF ParseFloat(Trim(stdout)) = NaN THEN Null
    ELSE ParseFloat(Trim(stdout))

\* the callback of childProcess.exec: the value the promise resolves with
ExecCallback(error, stdout, stderr) ==
    IF error \/ stderr # <<>> THEN Null
    ELSE IF ParseFloat(Trim(stdout)) = NaN THEN Null
    ELSE ParseFloat(Trim(stdout))

\* what ffprobe may print on stdout
ProbeOutputs ==
    { <<>>,
      <<"\n">>,
      <<"N", "/", "A", "\n">>,
      <<"0", "\n">>,
      <<"0", ".", "0", "0", "\n">>,
      <<"5", "\n">>,
      <<"1", "2", ".", "5", "\n">>,
      <<"1", "2", ".", "5", "0", "0", "0", "0", "\n">>,
      <<" ", "7", " ", "\n">>,
      <<".", "5", "\n">>,
      <<"5", ".", "\n">>,
      <<".", "\n">>,
      <<"-", "3", "\n">>,
      <<"5", "x", "\n">>,
      <<"x", "5", "\n">>,
      <<"1", "2", ".", "5", "\n", "1", "2", ".", "5", "\n">>,
      <<"d", "u", "r", "a", "t", "i", "o", "n", "=", "5", "\n">> }

\* what ffprobe may print on stderr
ProbeDiagnostics == {<<>>, <<"w", "a", "r", "n", "\n">>}

ProbeOthers == <<adjustVars, montageVars, distillVars, shortVars, synthVars, spawnVars, wordVars,
                prepareVars,
                pairVars,
                concVars,
                zoneVars,
                budgetVars>>

ProbeInit ==
    /\ AdjustIdle
    /\ MontageIdle
    /\ DistillIdle
    /\ ShortIdle
    /\ SynthIdle
    /\ SpawnIdle
    /\ WordIdle
    /\ PrepareIdle
    /\ PairIdle
    /\ ConcIdle
    /\ ZoneIdle
    /\ BudgetIdle
    /\ qpc = "call"
    /\ probeError = FALSE
    /\ probeStderr = <<>>
    /\ probeStdout = <<>>
    /\ probeResult = Pending

\* getAudioDuration(audioPath): exec starts ffprobe, which runs to its end
ProbeExec ==
    /\ qpc = "call"
    /\ probeError' \in BOOLEAN
    /\ probeStdout' \in ProbeOutputs
    /\ probeStderr' \in ProbeDiagnostics
    /\ qpc' = "exec"
    /\ UNCHANGED probeResult
    /\ UNCHANGED ProbeOthers

\* the exec callback runs and resolves the promise
ProbeCallback ==
    /\ qpc = "exec"
    /\ probeResult' = ExecCallback(probeError, probeStdout, probeStderr)
    /\ qpc' = "settled"
    /\ UNCHANGED <<probeError, probeStdout, probeStderr>>
    /\ UNCHANGED ProbeOthers

ProbeNext ==
    \/ ProbeExec
    \/ ProbeCallback

SpecProbe == ProbeInit /\ [][ProbeNext]_vars

(***************************************************************************)
(* Properties of getAudioDuration                                          *)
(***************************************************************************)
ProbeSettled == qpc = "settled"

\* the output without the white space around it, taken position by position
StdoutCore ==
    LET nonWs == {i \in 1..Len(probeStdout) : probeStdout[i] \notin {" ", "\n", "\t"}}
    IN  IF nonWs = {} THEN <<>>
        ELSE SubSeq(probeStdout,
                    CHOOSE i \in nonWs : \A j \in nonWs : i <= j,
                    CHOOSE i \in nonWs : \A j \in nonWs : i >= j)

\* t is a decimal number from its first to its last character
IsDecimal(t) ==
    LET body == IF Len(t) > 0 /\ t[1] \in {"-", "+"} THEN Tail(t) ELSE t
        dots == {i \in 1..Len(body) : body[i] = "."}
    IN  /\ \A i \in 1..Len(body) : IsDigit(body[i]) \/ body[i] = "."
        /\ Cardinality(dots) <= 1
        /\ \E i \in 1..Len(body) : IsDigit(body[i])

\* the value of a decimal: its digits read as one number, scaled by the
\* number of digits after the point
DecimalValue(t) ==
    LET negative == t[1] = "-"
        body == IF t[1] \in {"-", "+"} THEN Tail(t) ELSE t
        digits == SelectSeq(body, IsDigit)
        dots == {i \in 1..Len(body) : body[i] = "."}
        scale == IF dots = {} THEN 0 ELSE Len(body) - (CHOOSE i \in dots : TRUE)
        n == DigitsValue(digits, 1, Len(digits))
    IN  Norm(<<IF negative THEN -n ELSE n, Pow10(scale)>>)

\* the longest prefixes of the trimmed output that are decimal numbers
NumericPrefixes ==
    {k \in 1..Len(StdoutCore) :
        /\ IsDecimal(SubSeq(StdoutCore, 1, k))
        /\ \A m \in (k + 1)..Len(StdoutCore) : ~IsDecimal(SubSeq(StdoutCore, 1, m))}

ProbeFailed == probeError \/ probeStderr # <<>>

MaxImages == 2

\* how the final-assembly subprocess can end: exit code 0, another exit code,
\* the 2-minute timer killing it, or the process failing to start
SpawnOutcomes == {"exit0", "exitNonZero", "timeout", "error"}

\* the audio inputs after the images: voiceover, then soundtrack
ShortAudioInputs(vp, cfg) ==
    (IF vp # "null" THEN <<vp>> ELSE <<>>)
        \o (IF SoundtrackUsed(cfg) THEN <<"soundtrackPath">> ELSE <<>>)

\* the audio part of filterComplex, one record per filter
ShortFilterComplex(vp, cfg, images) ==
    LET voiceoverIndex == images
        soundtrackIndex == IF vp # "null" THEN images + 1 ELSE images
    IN  IF vp # "null" /\ SoundtrackUsed(cfg)
        THEN <<Volume(voiceoverIndex, "voiceoverVolume", "voice"),
               Volume(soundtrackIndex, "soundtrackVolume", "music"),
               Amix(<<"voice", "music">>, "mainaudio")>>
        ELSE IF vp # "null"
        THEN <<Volume(voiceoverIndex, "voiceoverVolume", "mainaudio")>>
        ELSE IF SoundtrackUsed(cfg)
        THEN <<Volume(soundtrackIndex, "soundtrackVolume", "mainaudio")>>
        ELSE <<>>

\* the -map options
ShortMaps(vp, cfg) ==
    IF vp # "null" \/ SoundtrackUsed(cfg)
    THEN <<"-map", "[mainvideo]", "-map", "[mainaudio]">>
    ELSE <<"-map", "[mainvideo]">>

\* mutant: the command is built without the final "-t totalDuration"
ShortArgsWithoutCap(vp, cfg, images) ==
    [images |-> images,
     perImage |-> Norm(<<ConfigVideoDuration, images>>),
     inputs |-> ShortAudioInputs(vp, cfg),
     filterComplex |-> ShortFilterComplex(vp, cfg, images),
     maps |-> ShortMaps(vp, cfg),
     t |-> 0]

\* ffmpegArgs
ShortArgs(vp, cfg, images) ==
    [images |-> images,
     perImage |-> Norm(<<ConfigVideoDuration, images>>),
     inputs |-> ShortAudioInputs(vp, cfg),
     filterComplex |-> ShortFilterComplex(vp, cfg, images),
     maps |-> ShortMaps(vp, cfg),
     t |-> ConfigVideoDuration]

ShortOthers == <<adjustVars, montageVars, distillVars, probeVars, synthVars, spawnVars, wordVars,
                prepareVars,
                pairVars,
                concVars,
                zoneVars,
                budgetVars>>

ShortInit ==
    /\ AdjustIdle
    /\ MontageIdle
    /\ DistillIdle
    /\ ProbeIdle
    /\ SynthIdle
    /\ SpawnIdle
    /\ WordIdle
    /\ PrepareIdle
    /\ PairIdle
    /\ ConcIdle
    /\ ZoneIdle
    /\ BudgetIdle
    /\ spc = "call"
    /\ scfg \in [aiVoiceoverEnabled : BOOLEAN, useCustomSoundtrack : BOOLEAN,
                 soundtrackExists : BOOLEAN]
    /\ imageCount \in 0..MaxImages
    /\ shortVoiceoverPath = "null"
    /\ shortVoiceoverDuration = NullDuration
    /\ sargs = NoShortArgs
    /\ slog = <<>>
    /\ shortOutput = "none"

\* the synchronous code that builds the final command and spawns ffmpeg
ShortBuildFinal(vp) ==
    /\ shortVoiceoverPath' = vp
    /\ sargs' = ShortArgs(vp, scfg, imageCount)
    /\ spc' = "final"

\* the inner catch: the error is logged and voiceoverPath is set to null
ShortCatch(event) ==
    /\ slog' = Append(slog, event)
    /\ ShortBuildFinal("null")

\* the call: no images throws at once; otherwise the narration stage starts,
\* or the final command is built when AI voiceover is disabled
ShortCall ==
    /\ spc = "call"
    /\ IF imageCount = 0
       THEN spc' = "rejectedNoImages" /\ UNCHANGED <<shortVoiceoverPath, sargs>>
       ELSE IF scfg.aiVoiceoverEnabled
       THEN spc' = "script" /\ UNCHANGED <<shortVoiceoverPath, sargs>>
       ELSE ShortBuildFinal(shortVoiceoverPath)
    /\ UNCHANGED <<scfg, imageCount, shortVoiceoverDuration, slog, shortOutput>>
    /\ UNCHANGED ShortOthers

\* createVoiceoverScript settles
ShortScriptExit ==
    /\ spc = "script"
    /\ \E ok \in Outcome("script", BOOLEAN) :
        IF ok THEN spc' = "synth" /\ UNCHANGED <<shortVoiceoverPath, sargs, slog>>
        ELSE ShortCatch("scriptFailed")
    /\ UNCHANGED <<scfg, imageCount, shortVoiceoverDuration, shortOutput>>
    /\ UNCHANGED ShortOthers

\* generateVoiceover settles; a rejection is caught and the build goes on
ShortSynthExit ==
    /\ spc = "synth"
    /\ \E ok \in Outcome("synth", BOOLEAN) :
        IF ok THEN /\ shortVoiceoverPath' = "voiceoverOutputPath"
                   /\ spc' = "probe"
                   /\ UNCHANGED <<sargs, slog>>
        ELSE ShortCatch("synthesisFailed")
    /\ UNCHANGED <<scfg, imageCount, shortVoiceoverDuration, shortOutput>>
    /\ UNCHANGED ShortOthers

\* getAudioDuration(voiceoverPath) resolves to null: no adjustment
ShortProbeNull ==
    /\ spc = "probe"
    /\ FALSE \in Outcome("probed", BOOLEAN)
    /\ shortVoiceoverDuration' = NullDuration
    /\ slog' = Append(slog, "probeNull")
    /\ ShortBuildFinal(shortVoiceoverPath)
    /\ UNCHANGED <<scfg, imageCount, shortOutput>>
    /\ UNCHANGED ShortOthers

\* getAudioDuration(voiceoverPath) resolves to a number
ShortProbed ==
    /\ spc = "probe"
    /\ TRUE \in Outcome("probed", BOOLEAN)
    /\ \E off \in Outcome("offset", VoiceoverOffsets) :
        LET measured == RAdd(TargetVoiceoverDuration(ConfigVideoDuration), Rat(off)) IN
        /\ shortVoiceoverDuration' = measured
        /\ IF NeedsAdjustment(measured, ConfigVideoDuration)
           THEN spc' = "extend" /\ UNCHANGED <<shortVoiceoverPath, sargs>>
           ELSE ShortBuildFinal(shortVoiceoverPath)
    /\ UNCHANGED <<scfg, imageCount, slog, shortOutput>>
    /\ UNCHANGED ShortOthers

\* extendAudioToFillDuration settles: its own probe resolved to null and it
\* threw (caught by the builder), or adjustVoiceoverDuration resolved
ShortExtendExit ==
    /\ spc = "extend"
    /\ \E probed \in Outcome("extend", BOOLEAN) :
        IF probed THEN /\ shortVoiceoverPath' = "adjustedOutputPath"
                       /\ spc' = "reprobe"
                       /\ UNCHANGED <<sargs, slog>>
        ELSE ShortCatch("extendProbeNull")
    /\ UNCHANGED <<scfg, imageCount, shortVoiceoverDuration, shortOutput>>
    /\ UNCHANGED ShortOthers

\* the re-probe of the adjusted narration resolves, to a number or to null
ShortReprobeExit ==
    /\ spc = "reprobe"
    /\ \E probed \in Outcome("reprobed", BOOLEAN) :
        /\ shortVoiceoverDuration' =
               (IF probed THEN TargetVoiceoverDuration(ConfigVideoDuration) ELSE NullDuration)
        /\ slog' = (IF probed THEN slog ELSE Append(slog, "reprobeNull"))
    /\ ShortBuildFinal(shortVoiceoverPath)
    /\ UNCHANGED <<scfg, imageCount, shortOutput>>
    /\ UNCHANGED ShortOthers

\* what ffmpeg leaves at outputVideoPath
WrittenBy(outcome) ==
    IF outcome = "exit0" THEN {"complete"}
    ELSE IF outcome = "error" THEN {"none"}
    ELSE {"none", "partial"}

\* mutant: the timeout's rejection is not propagated
AfterSpawnIgnoresTimeout(outcome) ==
    IF outcome \in {"exit0", "timeout"} THEN "verify" ELSE "rejectedFailedToCreateVideo"

\* await spawnFFmpeg(ffmpegArgs): on resolve go on to verify, on reject the
\* outer catch throws new Error(`Failed to create video: ${error}`)
AfterSpawn(outcome) ==
    IF outcome = "exit0" THEN "verify" ELSE "rejectedFailedToCreateVideo"

\* spawnFFmpeg(ffmpegArgs) settles: resolved on exit code 0, rejected otherwise
\* and the outer catch rethrows "Failed to create video: ..."
ShortFinalExit ==
    /\ spc = "final"
    /\ \E outcome \in SpawnOutcomes :
        /\ spc' = AfterSpawn(outcome)
        /\ shortOutput' \in WrittenBy(outcome)
        /\ slog' = (IF outcome = "exit0" THEN slog ELSE Append(slog, outcome))
    /\ UNCHANGED <<scfg, imageCount, shortVoiceoverPath, shortVoiceoverDuration, sargs>>
    /\ UNCHANGED ShortOthers

\* getVideoDuration(outputVideoPath) resolves (logged only); return outputVideoPath
ShortVerifyExit ==
    /\ spc = "verify"
    /\ spc' = "resolvedOutputVideoPath"
    /\ UNCHANGED <<scfg, imageCount, shortVoiceoverPath, shortVoiceoverDuration, sargs,
                   slog, shortOutput>>
    /\ UNCHANGED ShortOthers

ShortNext ==
    \/ ShortCall
    \/ ShortScriptExit
    \/ ShortSynthExit
    \/ ShortProbeNull
    \/ ShortProbed
    \/ ShortExtendExit
    \/ ShortReprobeExit
    \/ ShortFinalExit
    \/ ShortVerifyExit

SpecShort == ShortInit /\ [][ShortNext]_vars

\* either builder
SpecBuilders == (ShortInit \/ MontageInit) /\ [][ShortNext \/ MontageNext]_vars

(***************************************************************************)
(* generateVoiceover, generateSpeechWithOpenAI, generateSpeechWithElevenLabs*)
(***************************************************************************)
MaxChunks == 2

\* the statuses a provider can answer with
StatusCodes == {200, 401, 429, 500}
\* the pieces a response body can arrive in
Chunks == {<<"{">>, <<"e", "r", "r">>}
\* err.message of a request or file-stream error
ErrorMessages == {"ECONNRESET", "ETIMEDOUT"}

ProviderLabel(service) == IF service = "openai" THEN "OpenAI TTS" ELSE "ElevenLabs"
RequestLabel(service) == IF service = "openai" THEN "OpenAI" ELSE "ElevenLabs"

\* errorData += chunk, for each chunk in arrival order
ConcatChunks(chunks) == Flatten(chunks, 1, Len(chunks))

\* mutant: the error message leaves the response body out
ApiErrorWithoutBody(service, status, chunks) ==
    [text |-> <<ProviderLabel(service), " API error: ">>, status |-> status, body |-> <<>>]

\* new Error(`OpenAI TTS API error: ${res.statusCode} ${errorData}`)
ApiError(service, status, chunks) ==
    [text |-> <<ProviderLabel(service), " API error: ">>, status |-> status,
     body |-> ConcatChunks(chunks)]

\* new Error(`OpenAI API request failed: ${err.message}`)
RequestFailed(service, message) ==
    [text |-> <<RequestLabel(service), " API request failed: ">>, message |-> message]

\* new Error(`Failed to save audio file: ${err.message}`)
SaveFailed(message) == [text |-> <<"Failed to save audio file: ">>, message |-> message]

\* the adapters' and the switch's own errors, thrown before any request
KeyRequired(service) == [text |-> <<RequestLabel(service), " API key is required">>]
Unsupported(service) == [text |-> <<"Unsupported TTS service: ", service>>]

\* throw new Error(`Failed to generate voiceover: ${error.message}`)
Rejected(cause) ==
    [kind |-> "rejected", prefix |-> "Failed to generate voiceover: ", cause |-> cause]
Resolved(path) == [kind |-> "resolved", path |-> path]

HasKey(cfg) ==
    IF cfg.voiceoverTtsService = "openai" THEN cfg.openAiApiKey ELSE cfg.elevenLabsApiKey

SynthOthers == <<adjustVars, montageVars, distillVars, probeVars, shortVars, spawnVars, wordVars,
                prepareVars,
                pairVars,
                concVars,
                zoneVars,
                budgetVars>>

SynthInit ==
    /\ AdjustIdle
    /\ MontageIdle
    /\ DistillIdle
    /\ ProbeIdle
    /\ ShortIdle
    /\ SpawnIdle
    /\ WordIdle
    /\ PrepareIdle
    /\ PairIdle
    /\ ConcIdle
    /\ ZoneIdle
    /\ BudgetIdle
    /\ gpc = "call"
    /\ gcfg \in [voiceoverTtsService : {"openai", "elevenlabs", "azure"},
                 openAiApiKey : BOOLEAN, elevenLabsApiKey : BOOLEAN]
    /\ requests = <<>>
    /\ statusCode = 0
    /\ errorData = <<>>
    /\ voiceoverResult = Pending

\* the switch on config.voiceoverTtsService and the adapter up to req.end()
GenerateVoiceoverCall ==
    /\ gpc = "call"
    /\ IF gcfg.voiceoverTtsService \notin {"openai", "elevenlabs"}
       THEN /\ voiceoverResult' = Rejected(Unsupported(gcfg.voiceoverTtsService))
            /\ gpc' = "settled"
            /\ UNCHANGED requests
       ELSE IF ~HasKey(gcfg)
       THEN /\ voiceoverResult' = Rejected(KeyRequired(gcfg.voiceoverTtsService))
            /\ gpc' = "settled"
            /\ UNCHANGED requests
       ELSE /\ requests' = Append(requests, gcfg.voiceoverTtsService)
            /\ gpc' = "response"
            /\ UNCHANGED voiceoverResult
    /\ UNCHANGED <<gcfg, statusCode, errorData>>
    /\ UNCHANGED SynthOthers

\* the response callback: a non-200 status collects the body, 200 pipes to the file
ProviderResponse ==
    /\ gpc = "response"
    /\ \E status \in StatusCodes :
        /\ statusCode' = status
        /\ gpc' = (IF status # 200 THEN "errorBody" ELSE "saving")
    /\ UNCHANGED <<gcfg, requests, errorData, voiceoverResult>>
    /\ UNCHANGED SynthOthers

\* res.on("data") of a non-200 response
ErrorDataChunk ==
    /\ gpc = "errorBody"
    /\ Len(errorData) < MaxChunks
    /\ \E chunk \in Chunks : errorData' = Append(errorData, chunk)
    /\ UNCHANGED <<gpc, gcfg, requests, statusCode, voiceoverResult>>
    /\ UNCHANGED SynthOthers

\* res.on("end") of a non-200 response: reject, rethrown by generateVoiceover
ErrorResponseEnd ==
    /\ gpc = "errorBody"
    /\ voiceoverResult' = Rejected(ApiError(gcfg.voiceoverTtsService, statusCode, errorData))
    /\ gpc' = "settled"
    /\ UNCHANGED <<gcfg, requests, statusCode, errorData>>
    /\ UNCHANGED SynthOthers

\* req.on("error"): before a response, or while a non-200 body is arriving
ProviderRequestError ==
    /\ gpc \in {"response", "errorBody"}
    /\ \E message \in ErrorMessages :
        voiceoverResult' = Rejected(RequestFailed(gcfg.voiceoverTtsService, message))
    /\ gpc' = "settled"
    /\ UNCHANGED <<gcfg, requests, statusCode, errorData>>
    /\ UNCHANGED SynthOthers

\* fileStream "finish" or "error"
FileStreamSettles ==
    /\ gpc = "saving"
    /\ \/ gpc' = "probe" /\ UNCHANGED voiceoverResult
       \/ /\ \E message \in ErrorMessages : voiceoverResult' = Rejected(SaveFailed(message))
          /\ gpc' = "settled"
    /\ UNCHANGED <<gcfg, requests, statusCode, errorData>>
    /\ UNCHANGED SynthOthers

\* getAudioDuration(generatedFilePath) resolves; return generatedFilePath
VoiceoverProbeExit ==
    /\ gpc = "probe"
    /\ voiceoverResult' = Resolved("outputPath")
    /\ gpc' = "settled"
    /\ UNCHANGED <<gcfg, requests, statusCode, errorData>>
    /\ UNCHANGED SynthOthers

SynthNext ==
    \/ GenerateVoiceoverCall
    \/ ProviderResponse
    \/ ErrorDataChunk
    \/ ErrorResponseEnd
    \/ ProviderRequestError
    \/ FileStreamSettles
    \/ VoiceoverProbeExit

SpecSynth == SynthInit /\ [][SynthNext]_vars


(***************************************************************************)
(* spawnFFmpeg: the copies in tts-service.ts, video-service.ts and the     *)
(* montage builder                                                         *)
(***************************************************************************)
\* setTimeout(..., 120000), in ticks of 30 s
TimeoutTicks == 4
\* how long a subprocess that never exits is followed
MaxElapsed == 5

\* the callers of each copy
SpawnSites ==
    [module : {"tts-service"}, stage : {"tempo", "silence", "concat", "fallback"}]
    \cup [module : {"video-service"}, stage : {"final"}]
    \cup [module : {"montage"}, stage : {"extract", "concat", "final"}]

\* whether the copy sets a timer after spawning
HasTimeout(s) == s.module \in {"video-service", "montage"}

\* the codes a "close" event can report: 0, non-zero, or null after a signal
ExitCodes == {"0", "1", "null"}

ExitedWithCode(code) == [kind |-> "rejected", message |-> <<"FFmpeg exited with code ", code>>]
TimedOut == [kind |-> "rejected", message |-> <<"FFmpeg process timed out after 2 minutes">>]
StartFailed == [kind |-> "rejected", message |-> <<"spawn ffmpeg ENOENT">>]
SpawnResolved == [kind |-> "resolved"]

\* a promise settles once: later resolve/reject calls have no effect
Settle(current, outcome) == IF current = Pending THEN outcome ELSE current

SpawnOthers == <<adjustVars, montageVars, distillVars, probeVars, shortVars, synthVars, wordVars,
                prepareVars,
                pairVars,
                concVars,
                zoneVars,
                budgetVars>>

SpawnInit ==
    /\ AdjustIdle
    /\ MontageIdle
    /\ DistillIdle
    /\ ProbeIdle
    /\ ShortIdle
    /\ SynthIdle
    /\ WordIdle
    /\ PrepareIdle
    /\ PairIdle
    /\ ConcIdle
    /\ ZoneIdle
    /\ BudgetIdle
    /\ site \in SpawnSites
    /\ process = "none"
    /\ timeout = "none"
    /\ elapsed = 0
    /\ spawnResult = Pending

\* childProcess.spawn("ffmpeg", args), the handlers, and setTimeout where present
SpawnStart ==
    /\ process = "none"
    /\ process' = "running"
    /\ timeout' = (IF HasTimeout(site) THEN "armed" ELSE "none")
    /\ UNCHANGED <<site, elapsed, spawnResult>>
    /\ UNCHANGED SpawnOthers

\* time passes while no "close" event has come; an armed timer fires when it is due
SpawnTick ==
    /\ process \in {"running", "failed"}
    /\ elapsed < MaxElapsed
    /\ timeout = "armed" => elapsed < TimeoutTicks
    /\ elapsed' = elapsed + 1
    /\ UNCHANGED <<site, process, timeout, spawnResult>>
    /\ UNCHANGED SpawnOthers

\* process.on("close"): resolve on code 0, reject otherwise; the timer is cleared
SpawnClose ==
    /\ process \in {"running", "killed"}
    /\ \E code \in (IF process = "killed" THEN {"null"} ELSE ExitCodes) :
        spawnResult' = Settle(spawnResult,
                              IF code = "0" THEN SpawnResolved ELSE ExitedWithCode(code))
    /\ process' = "closed"
    /\ timeout' = (IF timeout = "armed" THEN "cleared" ELSE timeout)
    /\ UNCHANGED <<site, elapsed>>
    /\ UNCHANGED SpawnOthers

\* process.on("error"): the process could not be started
SpawnError ==
    /\ process = "running"
    /\ elapsed = 0
    /\ spawnResult = Pending
    /\ process' = "failed"
    /\ spawnResult' = StartFailed
    /\ UNCHANGED <<site, timeout, elapsed>>
    /\ UNCHANGED SpawnOthers

\* the timer callback: process.kill() and reject
SpawnTimeout ==
    /\ timeout = "armed"
    /\ elapsed = TimeoutTicks
    /\ process \in {"running", "failed"}
    /\ timeout' = "fired"
    /\ process' = (IF process = "running" THEN "killed" ELSE process)
    /\ spawnResult' = Settle(spawnResult, TimedOut)
    /\ UNCHANGED <<site, elapsed>>
    /\ UNCHANGED SpawnOthers

SpawnNext ==
    \/ SpawnStart
    \/ SpawnTick
    \/ SpawnClose
    \/ SpawnError
    \/ SpawnTimeout

SpecSpawn == SpawnInit /\ [][SpawnNext]_vars


(***************************************************************************)
(* calculateTargetWordCount                                                *)
(***************************************************************************)
\* durations up to this many seconds are tried, in steps of a tenth
MaxSeconds == 46

Tenths(n) == Norm(<<n, 10>>)
Hundredths(n) == Norm(<<n, 100>>)

\* Math.floor of a non-negative rational
Floor(r) == r[1] \div r[2]

\* a || b on a looked-up number: b when a is undefined or 0
OrDefault(looked, default) ==
    IF looked.kind = "number" /\ looked.value[1] # 0 THEN looked.value ELSE default

\* mutant: the conservative buffer applies only below 10 seconds
BufferFactorBelowTen(duration, configured) ==
    IF RLt(duration, Rat(10)) THEN Hundredths(95)
    ELSE IF RLt(Rat(30), duration) THEN Hundredths(99)
    ELSE configured

\* mutant: long durations get a buffer below the one of short durations
BufferFactorLongConservative(duration, configured) ==
    IF RLe(duration, Rat(10)) THEN Hundredths(95)
    ELSE IF RLt(Rat(30), duration) THEN Hundredths(90)
    ELSE configured

\* bufferFactor after the adjustment for the duration
BufferFactor(duration, configured) ==
    IF RLe(duration, Rat(10)) THEN Hundredths(95)
    ELSE IF RLt(Rat(30), duration) THEN Hundredths(99)
    ELSE configured

CalculateTargetWordCount(duration, looked, cfg) ==
    LET wordsPerSecond == OrDefault(looked, cfg.defaultSpeakingRate)
        bufferFactor == BufferFactor(duration, cfg.wordCountBufferFactor)
    IN  Floor(RMul(RMul(duration, wordsPerSecond), bufferFactor))

\* the rates a voice can be configured with, and the configured defaults
VoiceRates == {Undefined, Number(Tenths(29)), Number(Tenths(28))}
DefaultSpeakingRates == {Tenths(25), Tenths(28)}
WordCountBufferFactors == {Hundredths(98), Hundredths(90)}

WordOthers == <<adjustVars, montageVars, distillVars, probeVars, shortVars, synthVars,
                spawnVars,
                prepareVars,
                pairVars,
                concVars,
                zoneVars,
                budgetVars>>

WordInit ==
    /\ AdjustIdle
    /\ MontageIdle
    /\ DistillIdle
    /\ ProbeIdle
    /\ ShortIdle
    /\ SynthIdle
    /\ SpawnIdle
    /\ PrepareIdle
    /\ PairIdle
    /\ ConcIdle
    /\ ZoneIdle
    /\ BudgetIdle
    /\ wpc = "call"
    /\ durationSeconds \in {Tenths(n) : n \in 1..(10 * MaxSeconds)}
    /\ voiceRate \in VoiceRates
    /\ wordConfig \in [defaultSpeakingRate : DefaultSpeakingRates,
                       wordCountBufferFactor : WordCountBufferFactors]
    /\ returnedWordCount = 0

WordCountCall ==
    /\ wpc = "call"
    /\ returnedWordCount' = CalculateTargetWordCount(durationSeconds, voiceRate, wordConfig)
    /\ wpc' = "returned"
    /\ UNCHANGED <<durationSeconds, voiceRate, wordConfig>>
    /\ UNCHANGED WordOthers

WordNext == WordCountCall

SpecWordCount == WordInit /\ [][WordNext]_vars


(***************************************************************************)
(* generateVoiceover: word truncation and the character ceiling            *)
(***************************************************************************)
MAX_OPENAI_CHARS == 4000

\* truncateAtSentenceBoundary of tts-service: the sentences that fit, or the
\* first sentence cut to the word limit when not even that one fits
TtsTruncateAtSentenceBoundary(text, limit) ==
    LET sentences == RegexSentences(text)
        result == TakeWhileFits(sentences, 1, 0, <<>>, limit)
    IN  IF Len(result) = 0 /\ Len(sentences) > 0
        THEN LET words == SplitWs(sentences[1])
             IN  Join(SubSeq(words, 1, Min(limit, Len(words))), <<" ">>)
        ELSE Trim(result)

\* const targetDuration = maxDuration || 15
TargetDurationOf(maxDuration) ==
    IF maxDuration.kind = "number" /\ maxDuration.value[1] # 0
    THEN maxDuration.value ELSE Rat(15)

\* the configured default rate and buffer factor
PrepWordConfig ==
    [defaultSpeakingRate |-> Tenths(28), wordCountBufferFactor |-> Hundredths(98)]

\* the word truncation: only a text of more than TARGET_WORD_COUNT words is cut
WordTruncate(text, target) ==
    IF WordCount(text) > target THEN TtsTruncateAtSentenceBoundary(text, target) ELSE text

\* truncatedText.substring(0, MAX_OPENAI_CHARS) when the text is longer than the
\* ceiling and config.voiceoverTtsService === "openai"
CharCeiling(text, service) ==
    IF Len(text) > MAX_OPENAI_CHARS /\ service = "openai"
    THEN SubSeq(text, 1, MAX_OPENAI_CHARS) ELSE text

\* a single word of n characters
LongWord(n) == [i \in 1..n |-> "a"]

\* scripts: one or two sentences, possibly after a blank, and words around the
\* character ceiling
PrepTexts ==
    { lead \o Sentence(1, k) : lead \in {<<>>, <<" ">>}, k \in SentenceKinds }
    \cup { lead \o Sentence(1, k1) \o <<" ">> \o Sentence(2, k2) :
             lead \in {<<>>, <<" ">>}, k1 \in SentenceKinds, k2 \in SentenceKinds }
    \cup { LongWord(n) : n \in (MAX_OPENAI_CHARS - 1)..(MAX_OPENAI_CHARS + 1) }
    \cup { <<"A", " ">> \o LongWord(MAX_OPENAI_CHARS) \o <<".", " ", "B", ".">> }

PrepDurations == {Undefined, Number(Tenths(4)), Number(Rat(1)), Number(Rat(5))}

PrepareOthers == <<adjustVars, montageVars, distillVars, probeVars, shortVars, synthVars, spawnVars, wordVars,
                pairVars,
                concVars,
                zoneVars,
                budgetVars>>

PrepareInit ==
    /\ AdjustIdle
    /\ MontageIdle
    /\ DistillIdle
    /\ ProbeIdle
    /\ ShortIdle
    /\ SynthIdle
    /\ SpawnIdle
    /\ WordIdle
    /\ PairIdle
    /\ ConcIdle
    /\ ZoneIdle
    /\ BudgetIdle
    /\ ppc = "call"
    /\ prepText \in PrepTexts
    /\ prepConfig \in [voiceoverTtsService : {"openai", "elevenlabs", "azure"},
                       maxDuration : PrepDurations,
                       voiceRate : {Undefined, Number(Tenths(29))}]
    /\ TARGET_WORD_COUNT = 0
    /\ truncatedText = <<>>
    /\ optionsText = <<>>

\* generateVoiceover from its entry to the options object
PrepareOptions ==
    /\ ppc = "call"
    /\ LET target == CalculateTargetWordCount(TargetDurationOf(prepConfig.maxDuration),
                                              prepConfig.voiceRate, PrepWordConfig)
           cut == WordTruncate(prepText, target)
       IN  /\ TARGET_WORD_COUNT' = target
           /\ truncatedText' = cut
           /\ optionsText' = CharCeiling(cut, prepConfig.voiceoverTtsService)
    /\ ppc' = "prepared"
    /\ UNCHANGED <<prepText, prepConfig>>
    /\ UNCHANGED PrepareOthers

PrepareNext == PrepareOptions

SpecPrepare == PrepareInit /\ [][PrepareNext]_vars

(***************************************************************************)
(* createShortVideo and createVideoMontage against the same stage outcomes *)
(***************************************************************************)
\* the settlements of the awaited stages: createVoiceoverScript,
\* generateVoiceover, getAudioDuration (null, or the offset of the measured
\* duration from the target), extendAudioToFillDuration and the re-probe
StageOutcomes ==
    [kind : {"fixed"}, script : BOOLEAN, synth : BOOLEAN, probed : BOOLEAN,
     offset : VoiceoverOffsets, extend : BOOLEAN, reprobed : BOOLEAN]

PairOthers == <<adjustVars, montageVars, distillVars, probeVars, shortVars, synthVars, spawnVars, wordVars, prepareVars,
                concVars,
                zoneVars,
                budgetVars>>

\* both builders are called with the same narration and soundtrack settings
PairInit ==
    /\ AdjustIdle
    /\ DistillIdle
    /\ ProbeIdle
    /\ SynthIdle
    /\ SpawnIdle
    /\ WordIdle
    /\ PrepareIdle
    /\ ConcIdle
    /\ ZoneIdle
    /\ BudgetIdle
    /\ stageOutcomes \in StageOutcomes
    /\ \E ai \in BOOLEAN, custom \in BOOLEAN, present \in BOOLEAN :
        /\ scfg = [aiVoiceoverEnabled |-> ai, useCustomSoundtrack |-> custom,
                   soundtrackExists |-> present]
        /\ mcfg = [aiVoiceoverEnabled |-> ai, useCustomSoundtrack |-> custom,
                   soundtrackExists |-> present, removeAudio |-> FALSE]
    /\ spc = "call"
    /\ imageCount \in 1..MaxImages
    /\ shortVoiceoverPath = "null"
    /\ shortVoiceoverDuration = NullDuration
    /\ sargs = NoShortArgs
    /\ slog = <<>>
    /\ shortOutput = "none"
    /\ mpc = "concat"
    /\ clipCount \in 1..MaxClips
    /\ videoDuration = 0
    /\ montageTarget = 0
    /\ voiceoverPath = "null"
    /\ voiceoverDuration = NullDuration
    /\ margs = NoArgs
    /\ tempMontage = FALSE

PairNext == ShortNext \/ MontageNext

SpecPair == PairInit /\ [][PairNext]_vars

(***************************************************************************)
(* adjustVoiceoverDuration: two calls in flight and their temporary files  *)
(***************************************************************************)
MaxClock == 2
Calls == {1, 2}
Dirs == {"dirA", "dirB"}

\* path.join(path.dirname(outputPath), `${prefix}_${Date.now()}.mp3`)
TempPath(dir, prefix, ms) == [dir |-> dir, prefix |-> prefix, ms |-> ms]

\* a file written at path p by call c replaces whatever was there
WriteTemp(files, p, c) == {f \in files : f.path # p} \cup {[path |-> p, writer |-> c]}

\* if (fs.existsSync(p)) fs.unlinkSync(p)
UnlinkTemp(files, p) == {f \in files : f.path # p}

ConcOthers == <<adjustVars, montageVars, distillVars, probeVars, shortVars, synthVars, spawnVars, wordVars, prepareVars, pairVars,
                zoneVars,
                budgetVars>>

ConcInit ==
    /\ AdjustIdle
    /\ MontageIdle
    /\ DistillIdle
    /\ ProbeIdle
    /\ ShortIdle
    /\ SynthIdle
    /\ SpawnIdle
    /\ WordIdle
    /\ PrepareIdle
    /\ PairIdle
    /\ ZoneIdle
    /\ BudgetIdle
    /\ now = 0
    /\ cpc = <<"entry", "entry">>
    /\ outputDir \in [Calls -> Dirs]
    /\ stretching \in [Calls -> BOOLEAN]
    /\ tempSilencePaths = <<NoPath, NoPath>>
    /\ tempOutputPaths = <<NoPath, NoPath>>
    /\ tempFs = {}

\* the clock moves on by a millisecond
Tick ==
    /\ now < MaxClock
    /\ now' = now + 1
    /\ UNCHANGED <<cpc, outputDir, stretching, tempSilencePaths, tempOutputPaths, tempFs>>
    /\ UNCHANGED ConcOthers

\* the extreme branch is entered: tempSilencePath is named from the clock and
\* the first command is spawned (silence when stretching, the chain otherwise)
EnterExtreme(c) ==
    /\ cpc[c] = "entry"
    /\ tempSilencePaths' =
           [tempSilencePaths EXCEPT ![c] = TempPath(outputDir[c], "temp_silence", now)]
    /\ cpc' = [cpc EXCEPT ![c] = IF stretching[c] THEN "silence" ELSE "chain"]
    /\ UNCHANGED <<now, outputDir, stretching, tempOutputPaths, tempFs>>
    /\ UNCHANGED ConcOthers

\* the silence command exits: on success it has written tempSilencePath and
\* the concat command is spawned
ConcSilenceExit(c) ==
    /\ cpc[c] = "silence"
    /\ \E ok \in BOOLEAN :
        IF ok THEN /\ tempFs' = WriteTemp(tempFs, tempSilencePaths[c], c)
                   /\ cpc' = [cpc EXCEPT ![c] = "concat"]
        ELSE /\ tempFs' = tempFs
             /\ cpc' = [cpc EXCEPT ![c] = "fallback"]
    /\ UNCHANGED <<now, outputDir, stretching, tempSilencePaths, tempOutputPaths>>
    /\ UNCHANGED ConcOthers

\* the concat command exits: on success tempOutputPath is named from the
\* clock, outputPath is copied to it and the tempo command is spawned
ConcConcatExit(c) ==
    /\ cpc[c] = "concat"
    /\ \E ok \in BOOLEAN :
        IF ok THEN LET p == TempPath(outputDir[c], "temp_output", now) IN
                   /\ tempOutputPaths' = [tempOutputPaths EXCEPT ![c] = p]
                   /\ tempFs' = WriteTemp(tempFs, p, c)
                   /\ cpc' = [cpc EXCEPT ![c] = "tempo"]
        ELSE /\ UNCHANGED <<tempOutputPaths, tempFs>>
             /\ cpc' = [cpc EXCEPT ![c] = "fallback"]
    /\ UNCHANGED <<now, outputDir, stretching, tempSilencePaths>>
    /\ UNCHANGED ConcOthers

\* the tempo command exits: on success both temporary files are unlinked
ConcTempoExit(c) ==
    /\ cpc[c] = "tempo"
    /\ \E ok \in BOOLEAN :
        IF ok THEN /\ tempFs' = UnlinkTemp(UnlinkTemp(tempFs, tempOutputPaths[c]),
                                           tempSilencePaths[c])
                   /\ cpc' = [cpc EXCEPT ![c] = "verify"]
        ELSE /\ tempFs' = tempFs
             /\ cpc' = [cpc EXCEPT ![c] = "fallback"]
    /\ UNCHANGED <<now, outputDir, stretching, tempSilencePaths, tempOutputPaths>>
    /\ UNCHANGED ConcOthers

\* the chained atempo command exits: on success tempSilencePath is unlinked
\* if a file of that name exists
ConcChainExit(c) ==
    /\ cpc[c] = "chain"
    /\ \E ok \in BOOLEAN :
        IF ok THEN /\ tempFs' = UnlinkTemp(tempFs, tempSilencePaths[c])
                   /\ cpc' = [cpc EXCEPT ![c] = "verify"]
        ELSE /\ tempFs' = tempFs
             /\ cpc' = [cpc EXCEPT ![c] = "fallback"]
    /\ UNCHANGED <<now, outputDir, stretching, tempSilencePaths, tempOutputPaths>>
    /\ UNCHANGED ConcOthers

\* the fallback command exits; either way the call goes on to return
ConcFallbackExit(c) ==
    /\ cpc[c] = "fallback"
    /\ cpc' = [cpc EXCEPT ![c] = "verify"]
    /\ UNCHANGED <<now, outputDir, stretching, tempSilencePaths, tempOutputPaths, tempFs>>
    /\ UNCHANGED ConcOthers

\* getAudioDuration(outputPath) settles and the call returns outputPath
ConcReturn(c) ==
    /\ cpc[c] = "verify"
    /\ cpc' = [cpc EXCEPT ![c] = "returned"]
    /\ UNCHANGED <<now, outputDir, stretching, tempSilencePaths, tempOutputPaths, tempFs>>
    /\ UNCHANGED ConcOthers

ConcNext ==
    \/ Tick
    \/ \E c \in Calls : EnterExtreme(c)
    \/ \E c \in Calls : ConcSilenceExit(c)
    \/ \E c \in Calls : ConcConcatExit(c)
    \/ \E c \in Calls : ConcTempoExit(c)
    \/ \E c \in Calls : ConcChainExit(c)
    \/ \E c \in Calls : ConcFallbackExit(c)
    \/ \E c \in Calls : ConcReturn(c)

SpecConcurrent == ConcInit /\ [][ConcNext]_vars

(***************************************************************************)
(* extractDistributedKeyContent: the three sections of a long transcript   *)
(***************************************************************************)
MaxTotalSentences == 64

ZoneOthers == <<adjustVars, montageVars, distillVars, probeVars, shortVars, synthVars, spawnVars, wordVars, prepareVars, pairVars, concVars,
                budgetVars>>

ZoneInit ==
    /\ AdjustIdle
    /\ MontageIdle
    /\ DistillIdle
    /\ ProbeIdle
    /\ ShortIdle
    /\ SynthIdle
    /\ SpawnIdle
    /\ WordIdle
    /\ PrepareIdle
    /\ PairIdle
    /\ ConcIdle
    /\ BudgetIdle
    /\ zpc = "call"
    /\ \E n \in 0..MaxTotalSentences : sentenceIndices = [i \in 1..n |-> i]
    /\ combinedIndices = <<>>

\* up to three sentences are all used; otherwise the beginning, middle and
\* end sections are sliced out and combined
ZoneCombine ==
    /\ zpc = "call"
    /\ combinedIndices' = (IF Len(sentenceIndices) <= 3 THEN sentenceIndices
                           ELSE CombinedSentences(sentenceIndices))
    /\ zpc' = "combined"
    /\ UNCHANGED sentenceIndices
    /\ UNCHANGED ZoneOthers

ZoneNext == ZoneCombine

SpecZones == ZoneInit /\ [][ZoneNext]_vars

(***************************************************************************)
(* The builders' distillation budget and generateVoiceover's own budget    *)
(***************************************************************************)
MaxVideoSeconds == 32

\* config.voiceoverDurationRatio: the default and other fractions in (0, 1]
NarrationRatios == {Hundredths(93), Hundredths(95), Hundredths(99), Rat(1)}

BudgetOthers == <<adjustVars, montageVars, distillVars, probeVars, shortVars, synthVars, spawnVars, wordVars, prepareVars, pairVars, concVars, zoneVars>>

BudgetInit ==
    /\ AdjustIdle
    /\ MontageIdle
    /\ DistillIdle
    /\ ProbeIdle
    /\ ShortIdle
    /\ SynthIdle
    /\ SpawnIdle
    /\ WordIdle
    /\ PrepareIdle
    /\ PairIdle
    /\ ConcIdle
    /\ ZoneIdle
    /\ bpc = "call"
    /\ budgetInput \in [totalDuration : {Tenths(k) : k \in 1..(10 * MaxVideoSeconds)},
                        ratio : NarrationRatios,
                        voiceRate : VoiceRates,
                        cfg : [defaultSpeakingRate : DefaultSpeakingRates,
                               wordCountBufferFactor : WordCountBufferFactors]]
    /\ optimalWordCount = 0
    /\ scriptWordCount = 0
    /\ voiceoverBudget = 0
    /\ truncatedAgain = FALSE

\* the builder computes targetVoiceoverDuration = totalDuration * ratio and
\* the budget from it; createVoiceoverScript returns a script within it
BudgetScript ==
    /\ bpc = "call"
    /\ LET targetVoiceoverDuration == RMul(budgetInput.totalDuration, budgetInput.ratio)
           optimal == CalculateTargetWordCount(targetVoiceoverDuration,
                                               budgetInput.voiceRate, budgetInput.cfg)
       IN  /\ optimalWordCount' = optimal
           /\ scriptWordCount' \in {optimal, optimal \div 2}
    /\ bpc' = "scripted"
    /\ UNCHANGED <<budgetInput, voiceoverBudget, truncatedAgain>>
    /\ UNCHANGED BudgetOthers

\* generateVoiceover(script, voiceoverOutputPath, totalDuration): its budget
\* from the full duration and the test words.length > TARGET_WORD_COUNT
BudgetSynthesize ==
    /\ bpc = "scripted"
    /\ LET target == CalculateTargetWordCount(
                         TargetDurationOf(Number(budgetInput.totalDuration)),
                         budgetInput.voiceRate, budgetInput.cfg)
       IN  /\ voiceoverBudget' = target
           /\ truncatedAgain' = (scriptWordCount > target)
    /\ bpc' = "prepared"
    /\ UNCHANGED <<budgetInput, optimalWordCount, scriptWordCount>>
    /\ UNCHANGED BudgetOthers

BudgetNext == BudgetScript \/ BudgetSynthesize

SpecBudget == BudgetInit /\ [][BudgetNext]_vars

(***************************************************************************)
(* Properties of createShortVideo                                          *)
(***************************************************************************)
ShortLogged(event) == \E i \in 1..Len(slog) : slog[i] = event

\* the final command has been built
ShortCommandBuilt ==
    spc \in {"final", "verify", "resolvedOutputVideoPath", "rejectedFailedToCreateVideo"}

\* the narration was synthesized: script and synthesis both succeeded
ShortSynthesized ==
    /\ scfg.aiVoiceoverEnabled
    /\ ShortCommandBuilt
    /\ ~ShortLogged("scriptFailed")
    /\ ~ShortLogged("synthesisFailed")

ShortProbeFailed ==
    ShortLogged("probeNull") \/ ShortLogged("extendProbeNull") \/ ShortLogged("reprobeNull")

\* the narration, raw or adjusted, is an input of the final command and is mapped
ShortNarrationMixed ==
    /\ shortVoiceoverPath \in {"voiceoverOutputPath", "adjustedOutputPath"}
    /\ sargs.inputs # <<>>
    /\ sargs.inputs[1] = shortVoiceoverPath
    /\ \E i \in 1..Len(sargs.filterComplex) :
         sargs.filterComplex[i] = Volume(imageCount, "voiceoverVolume",
             IF SoundtrackUsed(scfg) THEN "voice" ELSE "mainaudio")
    /\ sargs.maps = <<"-map", "[mainvideo]", "-map", "[mainaudio]">>

\* C14: in createShortVideo a probe that resolves to null, wherever it happens
\* (after synthesis, inside extendAudioToFillDuration, at the re-probe), leaves
\* the synthesized narration in the final mix.
C14_ProbeFailureKeepsNarration ==
    (ShortSynthesized /\ ShortProbeFailed) => ShortNarrationMixed

\* C15: a rejection of generateVoiceover is not swallowed by createShortVideo:
\* the builder has no option by which its caller opts to continue, so after a
\* synthesis failure it never goes on to assemble the video.
C15_SynthesisFailureStopsBuild ==
    ShortLogged("synthesisFailed") => ~ShortCommandBuilt

(***************************************************************************)
(* Properties of generateVoiceover                                         *)
(***************************************************************************)
VoiceoverRejected == voiceoverResult # Pending /\ voiceoverResult.kind = "rejected"

\* the rejection is that of a provider failure: a non-200 answer or a request error
ProviderFailed ==
    /\ VoiceoverRejected
    /\ requests # <<>>
    /\ statusCode # 200

\* exactly one request, to the configured provider
OneRequest == requests = <<gcfg.voiceoverTtsService>>

\* the error carries the status code and the whole body of the response
CarriesStatusAndBody ==
    /\ "status" \in DOMAIN voiceoverResult.cause
    /\ voiceoverResult.cause.status = statusCode
    /\ voiceoverResult.cause.body = ConcatChunks(errorData)

\* the error carries the message of the request error, and no status code
CarriesRequestError ==
    /\ "message" \in DOMAIN voiceoverResult.cause
    /\ voiceoverResult.cause.message \in ErrorMessages
    /\ "status" \notin DOMAIN voiceoverResult.cause

\* C16 as stated: after a non-200 answer or a request error generateVoiceover has
\* rejected with an error carrying the provider's status code and body, after
\* exactly one provider request.
C16_ProviderFailureCarriesStatusAndBody ==
    ProviderFailed => (OneRequest /\ CarriesStatusAndBody)

\* C16 amended: after exactly one provider request, a non-200 response that ends
\* rejects with the status code and body, and a request error rejects with the
\* request's error message; no second request is ever sent.
C16_ProviderFailureRejectsAfterOneRequest ==
    /\ Len(requests) <= 1
    /\ ProviderFailed =>
        /\ OneRequest
        /\ voiceoverResult.prefix = "Failed to generate voiceover: "
        /\ \/ /\ voiceoverResult.cause =
                    ApiError(gcfg.voiceoverTtsService, statusCode, errorData)
              /\ CarriesStatusAndBody
              /\ statusCode \in StatusCodes \ {200}
           \/ /\ CarriesRequestError
              /\ voiceoverResult.cause =
                    RequestFailed(gcfg.voiceoverTtsService, voiceoverResult.cause.message)

\* a non-200 answer whose body arrived in two chunks has been rejected
C16_Witness ==
    /\ ProviderFailed
    /\ statusCode = 429
    /\ Len(errorData) = MaxChunks
    /\ CarriesStatusAndBody
    /\ Len(voiceoverResult.cause.body) > 1

(***************************************************************************)
(* Properties of spawnFFmpeg                                               *)
(***************************************************************************)
\* the stage is still awaiting a subprocess that has not exited
StageWaiting == process = "running" /\ spawnResult = Pending

\* C17: every media-transform subprocess carries a wall-clock timeout: no stage
\* is still waiting on a running subprocess after the timeout has expired.
C17_NoStageWaitsPastTimeout ==
    StageWaiting => elapsed <= TimeoutTicks

(***************************************************************************)
(* Final assembly of createShortVideo                                      *)
(***************************************************************************)
\* C18: when the final-assembly ffmpeg exits with a non-zero code or is killed by
\* the timeout, createShortVideo rejects with "Failed to create video ...", and
\* it never resolves with the path of a partial file.
C18_FinalAssemblyFailureRejects ==
    /\ (ShortLogged("exitNonZero") \/ ShortLogged("timeout"))
           => spc = "rejectedFailedToCreateVideo"
    /\ spc \in {"verify", "resolvedOutputVideoPath"} => shortOutput = "complete"

\* the timeout killed ffmpeg after it had written part of the file
C18_Witness ==
    /\ spc = "rejectedFailedToCreateVideo"
    /\ ShortLogged("timeout")
    /\ shortOutput = "partial"

\* C19: whichever topology is chosen, the final command carries -t with the
\* target duration: the configured duration in createShortVideo, the smaller of
\* the configured duration and the concatenated clips' duration in
\* createVideoMontage; the cap never exceeds the configured duration.
C19_FinalCommandCapped ==
    /\ ShortCommandBuilt => sargs.t = ConfigVideoDuration
    /\ CommandBuilt =>
        /\ margs.t = Min(videoDuration, ConfigVideoDuration)
        /\ margs.t <= ConfigVideoDuration
        /\ margs.t > 0

\* the short video mixes narration and soundtrack and is capped
C19_Witness ==
    /\ spc = "resolvedOutputVideoPath"
    /\ Len(sargs.filterComplex) = 3
    /\ sargs.t = ConfigVideoDuration

(***************************************************************************)
(* Properties of calculateTargetWordCount                                  *)
(***************************************************************************)
\* the rate the claim names: the voice's own, or the global default
ClaimedRate ==
    IF voiceRate = Undefined THEN wordConfig.defaultSpeakingRate ELSE voiceRate.value

\* the buffer the claim names
ClaimedBuffer ==
    IF RLe(durationSeconds, Rat(10)) THEN <<19, 20>>
    ELSE IF RLt(Rat(30), durationSeconds) THEN <<99, 100>>
    ELSE wordConfig.wordCountBufferFactor

ClaimedProduct == RMul(durationSeconds, RMul(ClaimedRate, ClaimedBuffer))

\* C20: calculateTargetWordCount(duration, voice) = floor(duration x rate x buffer):
\* the returned integer w satisfies w <= duration x rate x buffer < w + 1.
C20_WordCountIsFloorOfProduct ==
    wpc = "returned" =>
        /\ RLe(Rat(returnedWordCount), ClaimedProduct)
        /\ RLt(ClaimedProduct, Rat(returnedWordCount + 1))

\* exactly 10 seconds with a voice of its own rate: 10 x 2.9 x 0.95 = 27.55
C20_Witness ==
    /\ wpc = "returned"
    /\ durationSeconds = Rat(10)
    /\ voiceRate = Number(<<29, 10>>)
    /\ returnedWordCount = 27

(***************************************************************************)
(* Properties of the text generateVoiceover prepares                       *)
(***************************************************************************)
\* the text is handed to a provider adapter, which sends it
SentToProvider ==
    ppc = "prepared" /\ prepConfig.voiceoverTtsService \in {"openai", "elevenlabs"}

\* C21: the text sent to the speech provider never exceeds 4000 characters: a
\* longer script is cut to its first 4000 characters, a script within the
\* ceiling is sent unchanged.
C21_SentTextWithinCeiling ==
    SentToProvider =>
        /\ Len(optionsText) <= MAX_OPENAI_CHARS
        /\ Len(truncatedText) > MAX_OPENAI_CHARS =>
               optionsText = SubSeq(truncatedText, 1, MAX_OPENAI_CHARS)
        /\ Len(truncatedText) <= MAX_OPENAI_CHARS => optionsText = truncatedText

(***************************************************************************)
(* Hard truncation of a first sentence that exceeds the budget             *)
(***************************************************************************)
\* the sentences fallbackDistillation works on
FallbackSentences(text) ==
    LET parts == SplitBar(MarkSentenceEnds(text))
        trimmed == [k \in 1..Len(parts) |-> Trim(parts[k])]
    IN  SelectSeq(trimmed, LAMBDA x : Len(x) > 0)

\* a rule-based path produced the script
RuleBasedLegacy == LegacyReturned /\ ExceedsBudget
RuleBasedFallback == dpc = "done" /\ via = "create" /\ llm \in {"unavailable", "failed"}

\* the first candidate sentence of the path taken
FirstCandidate ==
    IF via = "legacy" THEN Sentences[1] ELSE FallbackSentences(DistillInput)[1]

FirstCandidateExceeds ==
    /\ maxWords >= 1
    /\ (IF via = "legacy" THEN Sentences ELSE FallbackSentences(DistillInput)) # <<>>
    /\ WordCount(FirstCandidate) > maxWords

\* C22: when the first candidate sentence alone exceeds the budget, the legacy
\* distiller and the summarizer's fallbackDistillation return that sentence cut
\* to at most targetWordCount words, never an empty script.
C22_FirstSentenceHardTruncated ==
    ((RuleBasedLegacy \/ RuleBasedFallback) /\ FirstCandidateExceeds) =>
        /\ script # <<>>
        /\ WordCount(script) <= maxWords
        /\ script = SliceWords(FirstCandidate, maxWords)

(***************************************************************************)
(* The AI summary cut at a sentence boundary                               *)
(***************************************************************************)
\* the summaries the model may have answered that exceed the budget
LongSummaries == {s \in LlmSummaries(DistillInput) : WordCount(s) > maxWords}

\* model.invoke resolved and its summary was not returned as it came
SummaryTruncated ==
    /\ dpc = "done" /\ via = "create" /\ llm = "replied"
    /\ ~\E s \in LlmSummaries(DistillInput) : WordCount(s) <= maxWords /\ script = s

\* C23: an AI summary of more than targetWordCount words is returned as a prefix
\* (of the summary without its surrounding white space) made of whole sentences:
\* at most targetWordCount words, ending in ".", "!" or "?".
C23_LongSummaryCutAtSentenceEnd ==
    SummaryTruncated =>
        \E s \in LongSummaries :
            /\ IsPrefix(script, Trim(s))
            /\ Words(script) <= maxWords
            /\ EndsInTerminal(script)

(***************************************************************************)
(* Temporary files of adjustVoiceoverDuration                              *)
(***************************************************************************)
\* C24: whenever adjustVoiceoverDuration resolves, the temporary files it
\* created (temp_silence_*.mp3, temp_output_*.mp3) have been deleted, also when
\* the extreme branch failed and the clamped fallback succeeded.
C24_NoTempFilesAfterResolve ==
    pc = "returned" =>
        /\ ~fs["tempSilencePath"].exists
        /\ ~fs["tempOutputPath"].exists



(***************************************************************************)
(* Properties of the two builders run against the same stage outcomes      *)
(***************************************************************************)
BothCommandsBuilt == ShortCommandBuilt /\ CommandBuilt

\* C25: once both builders have built their final command against the same
\* sequence of stage outcomes, they have chosen the same narration file: both
\* none, both the raw synthesized file, or both the adjusted file.
C25_SameNarrationChoice ==
    BothCommandsBuilt => shortVoiceoverPath = voiceoverPath

\* the part that holds: the builders agree whenever extendAudioToFillDuration
\* does not throw
C25_AgreeUnlessExtendThrows ==
    (BothCommandsBuilt /\ \A i \in 1..Len(slog) : slog[i] # "extendProbeNull")
        => shortVoiceoverPath = voiceoverPath

(***************************************************************************)
(* Properties of two concurrent adjustVoiceoverDuration calls              *)
(***************************************************************************)
InFlight(c) == cpc[c] \in {"silence", "concat", "tempo", "chain"}

\* the temporary paths a call has named
NamedBy(c) == {tempSilencePaths[c], tempOutputPaths[c]} \ {NoPath}

\* C26: two calls in flight at once, even in the same directory and the same
\* clock millisecond, never have a temporary path in common.
C26_NoSharedTempFile ==
    (InFlight(1) /\ InFlight(2)) => NamedBy(1) \cap NamedBy(2) = {}

\* the part that holds: calls writing to different directories never share
C26_DistinctDirsNeverShare ==
    outputDir[1] # outputDir[2] => NamedBy(1) \cap NamedBy(2) = {}

\* what the sharing leads to: a call that wrote its silence file and is still
\* waiting for the command that reads it finds the file it wrote
C26_OwnSilenceFileStillThere ==
    \A c \in Calls : cpc[c] = "concat" =>
        [path |-> tempSilencePaths[c], writer |-> c] \in tempFs

(***************************************************************************)
(* The atempo factors adjustVoiceoverDuration hands to ffmpeg              *)
(***************************************************************************)
AtempoInRange(f) == RLe(Half, f) /\ RLe(f, Two)

\* C27: every factor of every atempo stage of every command that has been
\* spawned lies in [0.5, 2.0], whichever branch issued it: the single-stage
\* transforms, the residual factor after the silence padding, each stage of
\* the speed-up chain and the clamped fallback.
C27_AtempoFactorsInRange ==
    \A i \in 1..Len(spawned) :
        spawned[i].cmd = "atempo" =>
            \A k \in 1..Len(spawned[i].factors) : AtempoInRange(spawned[i].factors[k])

\* witness: the stretch branch padded with silence, issued the residual
\* factor, failed, and issued the clamped fallback for a ratio below 0.5
C27_Witness ==
    /\ branch = "slow"
    /\ pc = "fallback"
    /\ Len(spawned) = 4
    /\ spawned[3] = Cmd("atempo", <<NewTempoFactor(currentDuration, targetDuration)>>)
    /\ spawned[4] = Cmd("atempo", <<Half>>)
    /\ RLt(TempoFactor(currentDuration, targetDuration), Half)

\* also reached: a speed-up chain of more than one stage
C27_ChainOfTwoStages ==
    \E i \in 1..Len(spawned) : spawned[i].cmd = "atempo" /\ Len(spawned[i].factors) >= 2

(***************************************************************************)
(* Properties of the candidate list of extractDistributedKeyContent        *)
(***************************************************************************)
StrictlyIncreasing(s) == \A i \in 1..(Len(s) - 1) : s[i] < s[i + 1]

\* C28: for a transcript of four or more sentences the candidate list
\* (beginning section, middle section, end section) is strictly increasing
\* in sentence position: the three sections are pairwise disjoint and in
\* transcript order, and no sentence is a candidate twice.
C28_CandidatesStrictlyIncreasing ==
    (zpc = "combined" /\ Len(sentenceIndices) >= 4) =>
        /\ StrictlyIncreasing(combinedIndices)
        /\ \A i \in 1..Len(combinedIndices) : combinedIndices[i] \in 1..Len(sentenceIndices)
        /\ Len(combinedIndices) = 3 * Max(1, Len(sentenceIndices) \div 4)

\* witness: a transcript whose sections hold more than one sentence each and
\* whose middle window has an odd width
C28_Witness ==
    /\ zpc = "combined"
    /\ Len(sentenceIndices) = 13
    /\ combinedIndices = <<1, 2, 3, 6, 7, 8, 11, 12, 13>>

(***************************************************************************)
(* The audio stream indices of the two final commands                      *)
(***************************************************************************)
\* the file behind ffmpeg input index i (0-based) of the short's command:
\* the images come first, then the audio inputs
ShortInputAt(i) ==
    IF i \in 0..(sargs.images - 1) THEN "image"
    ELSE IF i - sargs.images + 1 \in 1..Len(sargs.inputs)
    THEN sargs.inputs[i - sargs.images + 1]
    ELSE "missing"

\* the file a volume filter is meant for
MeantFor(level, narration) ==
    IF level = "voiceoverVolume" THEN narration ELSE "soundtrackPath"

\* C29: in the final command of either builder every audio stream index of
\* the filter graph is the position at which the file it is meant for was
\* added as an input: the narration index denotes the narration file, the
\* soundtrack index the soundtrack file, and none denotes a missing input.
C29_StreamIndicesDenoteTheirInputs ==
    /\ ShortCommandBuilt =>
          \A k \in 1..Len(sargs.filterComplex) :
              sargs.filterComplex[k].filter = "volume" =>
                  /\ ShortInputAt(sargs.filterComplex[k].in[1])
                        = MeantFor(sargs.filterComplex[k].level, shortVoiceoverPath)
                  /\ ShortInputAt(sargs.filterComplex[k].in[1]) \notin {"missing", "null", "image"}
    /\ CommandBuilt =>
          \A k \in 1..Len(margs.filterComplex) :
              margs.filterComplex[k].filter = "volume" =>
                  /\ InputAt(margs.filterComplex[k].in[1])
                        = MeantFor(margs.filterComplex[k].level, voiceoverPath)
                  /\ InputAt(margs.filterComplex[k].in[1]) \notin {"missing", "null", "tempOutputPath"}

\* witness: a short of several images built with the adjusted narration and
\* the soundtrack
C29_Witness ==
    /\ ShortCommandBuilt
    /\ imageCount >= 2
    /\ shortVoiceoverPath = "adjustedOutputPath"
    /\ sargs.inputs = <<"adjustedOutputPath", "soundtrackPath">>
    /\ Len(sargs.filterComplex) = 3

\* also reached: a montage with the soundtrack alone, and one with both
C29_MontageSoundtrackOnly ==
    CommandBuilt /\ margs.inputs = <<"tempOutputPath", "soundtrackPath">>
                 /\ Len(margs.filterComplex) = 1
C29_MontageBoth ==
    CommandBuilt /\ Len(margs.inputs) = 3 /\ Len(margs.filterComplex) = 3
C29_ShortSoundtrackOnly ==
    ShortCommandBuilt /\ sargs.inputs = <<"soundtrackPath">> /\ Len(sargs.filterComplex) = 1

(***************************************************************************)
(* Properties of the two word budgets                                      *)
(***************************************************************************)
BudgetPrepared == bpc = "prepared"

\* the configured buffer lies between the two built-in ones
BufferBetweenBuiltIns ==
    /\ RLe(Hundredths(95), budgetInput.cfg.wordCountBufferFactor)
    /\ RLe(budgetInput.cfg.wordCountBufferFactor, Hundredths(99))

\* C30 as stated: generateVoiceover's budget from the full duration is never
\* below the distillation budget, so a script within the distillation budget
\* is never word-truncated again
C30_SynthesisBudgetCoversScript ==
    BudgetPrepared => (voiceoverBudget >= optimalWordCount /\ ~truncatedAgain)

\* C30 amended: with a configured buffer factor between 0.95 and 0.99 (the
\* default is 0.98) generateVoiceover's budget from the full duration is at
\* least the distillation budget, across the 10 s and 30 s breakpoints too,
\* and a script within the distillation budget is not word-truncated again.
C30_CoversScriptWhenBufferBetweenBuiltIns ==
    (BudgetPrepared /\ BufferBetweenBuiltIns) =>
        (voiceoverBudget >= optimalWordCount /\ ~truncatedAgain)

\* witness: the narration target is within 10 s and the video is longer, and
\* the script uses the whole distillation budget
C30_Witness ==
    /\ BudgetPrepared
    /\ BufferBetweenBuiltIns
    /\ RLe(RMul(budgetInput.totalDuration, budgetInput.ratio), Rat(10))
    /\ RLt(Rat(10), budgetInput.totalDuration)
    /\ scriptWordCount = optimalWordCount
    /\ optimalWordCount > 0
    /\ voiceoverBudget >= optimalWordCount

\* also reached: the same across the 30 s breakpoint
C30_AcrossThirty ==
    /\ BudgetPrepared
    /\ BufferBetweenBuiltIns
    /\ RLe(RMul(budgetInput.totalDuration, budgetInput.ratio), Rat(30))
    /\ RLt(Rat(30), budgetInput.totalDuration)
    /\ scriptWordCount = optimalWordCount

====
